---- MODULE Spec2Model ----
(***************************************************************************)
(* Model of the crop-rectangle editor of videooo-cut (src/main.py):        *)
(* VideoPreviewWidget (coordinate mapping, hit-testing, draw / adjust      *)
(* gestures, constraints, shadow crops) and the MainWindow handlers that   *)
(* drive it (aspect-ratio controls, clear, import, rotation, segments).    *)
(*                                                                         *)
(* Conventions.                                                            *)
(*  - An optional value (Python None or an object) is a sequence: <<>> is  *)
(*    None and <<v>> is the object v.                                      *)
(*  - A QPoint is [x, y]; a QRect is [x1, y1, x2, y2] with Qt's inclusive  *)
(*    right/bottom, so width = x2 - x1 + 1 and QRect(x, y, w, h) has       *)
(*    x2 = x + w - 1.  PyQt's truth value of a QPoint is "not (0,0)" and   *)
(*    that of a QRect is isValid().                                        *)
(*  - The floats of the transform are kept as exact fractions <<n, d>>;    *)
(*    int() is truncation toward zero.  For the frame and widget sizes     *)
(*    and the ratios enumerated below, IEEE double arithmetic gives the    *)
(*    same integers as the exact fractions.                                *)
(*  - Only left-button mouse events are modelled; the handlers ignore      *)
(*    every other button.                                                  *)
(*  - events counts the delivered events and last_event records the name  *)
(*    of the last one and whether a rectangle was present when it arrived; *)
(*    both are history variables, no handler reads them.                   *)
(*  - A handler is a function from the state s = [pw, mw, aborted] (the    *)
(*    preview widget, the main window, the process status) to the state    *)
(*    it leaves; the statements of a handler are composed by passing the   *)
(*    intermediate state or value on as an argument.                       *)
(***************************************************************************)
EXTENDS Integers, Sequences, FiniteSets, TLC

VARIABLES preview_widget, main_window, aborted, events, last_event

vars == <<preview_widget, main_window, aborted, events, last_event>>

-----------------------------------------------------------------------------
(* Values *)

None == <<>>
Some(v) == <<v>>
Val(o) == o[1]

Max(a, b) == IF a >= b THEN a ELSE b
Min(a, b) == IF a <= b THEN a ELSE b
Abs(a) == IF a >= 0 THEN a ELSE -a

\* Python int() of the quotient n / d for d > 0: truncation toward zero.
Trunc(n, d) == IF n >= 0 THEN n \div d ELSE -((-n) \div d)

QPoint(px, py) == [x |-> px, y |-> py]
QRect(px, py, w, h) == [x1 |-> px, y1 |-> py, x2 |-> px + w - 1, y2 |-> py + h - 1]
QRectPts(tl, br) == [x1 |-> tl.x, y1 |-> tl.y, x2 |-> br.x, y2 |-> br.y]
QSize(w, h) == [w |-> w, h |-> h]

width(r) == r.x2 - r.x1 + 1
height(r) == r.y2 - r.y1 + 1
topLeft(r) == QPoint(r.x1, r.y1)
bottomRight(r) == QPoint(r.x2, r.y2)
contains(r, p) == r.x1 <= p.x /\ p.x <= r.x2 /\ r.y1 <= p.y /\ p.y <= r.y2

\* bool(QPoint) is not isNull(); bool(QRect) is isValid(); bool(None) is False.
PointNonNull(p) == p.x # 0 \/ p.y # 0
PointTruthy(o) == o # None /\ PointNonNull(Val(o))
RectValid(r) == r.x1 <= r.x2 /\ r.y1 <= r.y2
RectTruthy(o) == o # None /\ RectValid(Val(o))

-----------------------------------------------------------------------------
(* Inputs *)

\* Native frame sizes of the importable videos.
Videos == {QSize(320, 180)}

\* Sizes the preview widget takes: its minimum size, which it has after
\* construction, and a taller one that letterboxes a landscape frame.
MinimumSize == QSize(640, 360)
WidgetSizes == {MinimumSize, QSize(640, 480)}

\* Entries of the aspect-ratio combo box that are exercised.
Free == "Free"
Custom == "Custom"
ratio_map == [t \in {"16:9"} |-> <<16, 9>>]
ComboItems == {Free, Custom} \cup DOMAIN ratio_map

\* Values typed into the custom ratio spin boxes (range 1..1000).
CustomWidths == {16, 4}
CustomHeights == {9}

\* Largest number of segments selected in the spin box (range 1..10).
MaxSegments == 2

\* Number of events delivered in one run (events counts them).
MaxEvents == 7

\* Pointer positions delivered with press and move events.
PressPoints == {QPoint(0, 0), QPoint(100, 100), QPoint(200, 150), QPoint(299, 199)}
MovePoints == {QPoint(300, 200), QPoint(210, 160), QPoint(700, 400), QPoint(0, 0)}

-----------------------------------------------------------------------------
(* State after construction *)

handle_size == 10

InitPreviewWidget ==
    [ size |-> MinimumSize,
      current_frame |-> None,
      base_pixmap |-> None,
      crop_rect |-> None,
      crop_rect_widget |-> None,
      shadow_crop_rects |-> <<>>,
      shadow_crop_rects_widget |-> <<>>,
      drawing |-> FALSE,
      adjusting |-> FALSE,
      adjust_mode |-> None,
      start_point |-> None,
      end_point |-> None,
      start_point_widget |-> None,
      end_point_widget |-> None,
      original_crop_rect |-> None,
      original_crop_rect_widget |-> None,
      frame_to_widget_scale_x |-> <<1, 1>>,
      frame_to_widget_scale_y |-> <<1, 1>>,
      widget_offset_x |-> <<0, 1>>,
      widget_offset_y |-> <<0, 1>>,
      lock_aspect_ratio |-> FALSE,
      aspect_ratio |-> None,
      lock_size |-> FALSE,
      locked_size |-> None,
      shadow_count |-> 1 ]

InitMainWindow ==
    [ video_cap |-> None,
      rotation |-> 0,
      crop_rect |-> None,
      first_frame |-> None,
      crop_aspect_ratio |-> None,
      shadow_count |-> 1,
      aspect_ratio_combo |-> Free,
      custom_width_spin |-> 16,
      custom_height_spin |-> 9,
      custom_ratio_widget_visible |-> FALSE,
      lock_aspect_checkbox |-> FALSE,
      shadow_count_spin |-> 1 ]

\* The state the handlers work on: both objects and the process status.
State(pw, mw, ab) == [pw |-> pw, mw |-> mw, aborted |-> ab]

\* An uncaught Python exception in an event handler ends the process.
Abort(s) == [s EXCEPT !.aborted = TRUE]

-----------------------------------------------------------------------------
(* VideoPreviewWidget: transform and coordinate conversion *)

\* QPixmap.scaled(size, KeepAspectRatio): the frame size scaled to fit,
\* with Qt's integer arithmetic, each side at least 1; a null pixmap (0 x 0)
\* when the size is empty.
ScaledKeepAspectRatio(frame, target) ==
    IF target.w <= 0 \/ target.h <= 0 THEN QSize(0, 0)
    ELSE IF (target.h * frame.w) \div frame.h <= target.w
    THEN QSize(Max((target.h * frame.w) \div frame.h, 1), Max(target.h, 1))
    ELSE QSize(Max(target.w, 1), Max((target.w * frame.h) \div frame.w, 1))

\* The cached transform for a frame shown as the pixmap pm.
CacheTransform(s, frame, pm) ==
    [s EXCEPT !.pw.base_pixmap = Some(pm),
              !.pw.frame_to_widget_scale_x = <<pm.w, frame.w>>,
              !.pw.frame_to_widget_scale_y = <<pm.h, frame.h>>,
              !.pw.widget_offset_x = <<s.pw.size.w - pm.w, 2>>,
              !.pw.widget_offset_y = <<s.pw.size.h - pm.h, 2>>]

update_base_pixmap(s) ==
    IF s.pw.current_frame = None THEN s
    ELSE CacheTransform(s, Val(s.pw.current_frame),
                        ScaledKeepAspectRatio(Val(s.pw.current_frame), s.pw.size))

\* QRect.moveCenter: a rectangle of the size pm whose centre is (cx, cy).
MoveCenter(pm, cx, cy) ==
    [x1 |-> cx - Trunc(pm.w - 1, 2), y1 |-> cy - Trunc(pm.h - 1, 2),
     x2 |-> cx - Trunc(pm.w - 1, 2) + pm.w - 1, y2 |-> cy - Trunc(pm.h - 1, 2) + pm.h - 1]

\* base_pixmap.rect() moved so that its centre is the centre of self.rect().
pixmap_rect(pw) ==
    MoveCenter(IF pw.base_pixmap # None THEN Val(pw.base_pixmap) ELSE QSize(0, 0),
               (pw.size.w - 1) \div 2, (pw.size.h - 1) \div 2)

\* int((v - offset) / scale) clamped into 0..limit.
ToFrameAxis(v, offset, scale, limit) ==
    Max(0, Min(Trunc((v * offset[2] - offset[1]) * scale[2], offset[2] * scale[1]), limit))

widget_to_frame_coords(pw, widget_point) ==
    IF pw.current_frame = None THEN None
    ELSE Some(QPoint(
            ToFrameAxis(widget_point.x, pw.widget_offset_x, pw.frame_to_widget_scale_x,
                        Val(pw.current_frame).w),
            ToFrameAxis(widget_point.y, pw.widget_offset_y, pw.frame_to_widget_scale_y,
                        Val(pw.current_frame).h)))

\* frame_to_widget_coords without the centering offset: int(v * scale).
ToWidgetAxis_NoOffset(v, offset, scale) == Trunc(v * scale[1], scale[2])

\* int(v * scale + offset)
ToWidgetAxis(v, offset, scale) ==
    Trunc(v * scale[1] * offset[2] + offset[1] * scale[2], scale[2] * offset[2])

frame_to_widget_coords(pw, frame_point) ==
    QPoint(ToWidgetAxis(frame_point.x, pw.widget_offset_x, pw.frame_to_widget_scale_x),
           ToWidgetAxis(frame_point.y, pw.widget_offset_y, pw.frame_to_widget_scale_y))

\* QRect(top_left_widget, bottom_right_widget) of a frame rectangle.
ProjectRect(pw, r) ==
    QRectPts(frame_to_widget_coords(pw, topLeft(r)), frame_to_widget_coords(pw, bottomRight(r)))

\* "if top_left_widget and bottom_right_widget"
ProjectionTruthy(pw, r) ==
    /\ PointNonNull(frame_to_widget_coords(pw, topLeft(r)))
    /\ PointNonNull(frame_to_widget_coords(pw, bottomRight(r)))

-----------------------------------------------------------------------------
(* VideoPreviewWidget: hit-testing *)

Near(a, b) == Abs(a - b) <= handle_size

\* get_crop_handle_at with the interior checked before the handles.
HandleAt_InteriorFirst(rect, point) ==
    IF contains(rect, point) THEN Some("move")
    ELSE IF Near(point.x, rect.x1) /\ Near(point.y, rect.y1) THEN Some("resize_tl")
    ELSE IF Near(point.x, rect.x2) /\ Near(point.y, rect.y1) THEN Some("resize_tr")
    ELSE IF Near(point.x, rect.x1) /\ Near(point.y, rect.y2) THEN Some("resize_bl")
    ELSE IF Near(point.x, rect.x2) /\ Near(point.y, rect.y2) THEN Some("resize_br")
    ELSE IF Near(point.y, rect.y1) /\ rect.x1 <= point.x /\ point.x <= rect.x2 THEN Some("resize_t")
    ELSE IF Near(point.y, rect.y2) /\ rect.x1 <= point.x /\ point.x <= rect.x2 THEN Some("resize_b")
    ELSE IF Near(point.x, rect.x1) /\ rect.y1 <= point.y /\ point.y <= rect.y2 THEN Some("resize_l")
    ELSE IF Near(point.x, rect.x2) /\ rect.y1 <= point.y /\ point.y <= rect.y2 THEN Some("resize_r")
    ELSE None

\* get_crop_handle_at with the edges checked before the corners.
HandleAt_EdgesFirst(rect, point) ==
    IF Near(point.y, rect.y1) /\ rect.x1 <= point.x /\ point.x <= rect.x2 THEN Some("resize_t")
    ELSE IF Near(point.y, rect.y2) /\ rect.x1 <= point.x /\ point.x <= rect.x2 THEN Some("resize_b")
    ELSE IF Near(point.x, rect.x1) /\ rect.y1 <= point.y /\ point.y <= rect.y2 THEN Some("resize_l")
    ELSE IF Near(point.x, rect.x2) /\ rect.y1 <= point.y /\ point.y <= rect.y2 THEN Some("resize_r")
    ELSE IF Near(point.x, rect.x1) /\ Near(point.y, rect.y1) THEN Some("resize_tl")
    ELSE IF Near(point.x, rect.x2) /\ Near(point.y, rect.y1) THEN Some("resize_tr")
    ELSE IF Near(point.x, rect.x1) /\ Near(point.y, rect.y2) THEN Some("resize_bl")
    ELSE IF Near(point.x, rect.x2) /\ Near(point.y, rect.y2) THEN Some("resize_br")
    ELSE IF contains(rect, point) THEN Some("move")
    ELSE None

\* The handle of rect under the point, or None.
HandleAt(rect, point) ==
    IF Near(point.x, rect.x1) /\ Near(point.y, rect.y1) THEN Some("resize_tl")
    ELSE IF Near(point.x, rect.x2) /\ Near(point.y, rect.y1) THEN Some("resize_tr")
    ELSE IF Near(point.x, rect.x1) /\ Near(point.y, rect.y2) THEN Some("resize_bl")
    ELSE IF Near(point.x, rect.x2) /\ Near(point.y, rect.y2) THEN Some("resize_br")
    ELSE IF Near(point.y, rect.y1) /\ rect.x1 <= point.x /\ point.x <= rect.x2 THEN Some("resize_t")
    ELSE IF Near(point.y, rect.y2) /\ rect.x1 <= point.x /\ point.x <= rect.x2 THEN Some("resize_b")
    ELSE IF Near(point.x, rect.x1) /\ rect.y1 <= point.y /\ point.y <= rect.y2 THEN Some("resize_l")
    ELSE IF Near(point.x, rect.x2) /\ rect.y1 <= point.y /\ point.y <= rect.y2 THEN Some("resize_r")
    ELSE IF contains(rect, point) THEN Some("move")
    ELSE None

get_crop_handle_at(pw, point) ==
    IF ~RectTruthy(pw.crop_rect_widget) THEN None
    ELSE HandleAt(Val(pw.crop_rect_widget), point)

-----------------------------------------------------------------------------
(* VideoPreviewWidget: constraints.  A rectangle under construction is the   *)
(* tuple c = <<x1, y1, x2, y2>> of the code's local variables.               *)

\* Python floats are IEEE-754 doubles.  A double is the record [m, e] of its
\* 53 significant binary digits m, most significant first, and the exponent e
\* of the last one: its value is the number m reads in binary, times 2^e.
\* The operations round to nearest, ties to even.  The ratio terms are at
\* most 1000 and the pixel counts below 4096.

\* The number of binary digits of the natural number q, its digits, q in n
\* digits, and the number that binary digits read.
BitLength(q) == CHOOSE n \in 0 .. 30 : q < 2^n /\ (n = 0 \/ q >= 2^(n - 1))

FixedBits(q, n) == [i \in 1 .. n |-> (q \div 2^(n - i)) % 2]

IntBits(q) == FixedBits(q, BitLength(q))

RECURSIVE BitsInt(_)
BitsInt(bs) ==
    IF Len(bs) = 0 THEN 0
    ELSE IF Len(bs) = 1 THEN bs[1]
    ELSE BitsInt(SubSeq(bs, 1, Len(bs) \div 2)) * 2^(Len(bs) - Len(bs) \div 2)
         + BitsInt(SubSeq(bs, Len(bs) \div 2 + 1, Len(bs)))

\* bs + 1 for digits bs that are not all 1, given the position of the last 0.
IncBitsAt(bs, last0) ==
    [i \in 1 .. Len(bs) |-> IF i < last0 THEN bs[i] ELSE IF i = last0 THEN 1 ELSE 0]

\* The sticky flag tells of a remainder below the digits: the digits after the
\* 53rd are more than half a unit of the 53rd, or half a unit with the 53rd odd.
RoundsUp(bits, sticky) ==
    /\ bits[54] = 1
    /\ sticky \/ bits[53] = 1 \/ \E i \in 55 .. Len(bits) : bits[i] = 1

\* m + 1 for 53 digits m: when they are all 1, the sum is 2^53.
RoundedUp(m, e) ==
    IF \A i \in 1 .. 53 : m[i] = 1
    THEN [m |-> [i \in 1 .. 53 |-> IF i = 1 THEN 1 ELSE 0], e |-> e + 1]
    ELSE [m |-> IncBitsAt(m, CHOOSE j \in 1 .. 53 : m[j] = 0 /\ \A i \in j + 1 .. 53 : m[i] = 1),
          e |-> e]

\* The double nearest to the number that the 54 or more digits bits read,
\* times 2^e.
Round53(bits, e, sticky) ==
    IF RoundsUp(bits, sticky)
    THEN RoundedUp(SubSeq(bits, 1, 53), e + Len(bits) - 53)
    ELSE [m |-> SubSeq(bits, 1, 53), e |-> e + Len(bits) - 53]

\* 2^k modulo d.
RECURSIVE Pow2Mod(_, _)
SquareMod(x, d) == (x * x) % d
Pow2Mod(k, d) ==
    IF k = 0 THEN 1 % d
    ELSE IF k % 2 = 0 THEN SquareMod(Pow2Mod(k \div 2, d), d)
    ELSE (2 * Pow2Mod(k - 1, d)) % d

\* The first k binary digits of rem / d (rem < d) and the remainder after them.
FracBits(rem, d, k) == [i \in 1 .. k |-> (2 * ((rem * Pow2Mod(i - 1, d)) % d)) \div d]
FracRem(rem, d, k) == (rem * Pow2Mod(k, d)) % d

\* The number of zeros that the binary digits of rem / d start with (0 < rem < d).
LeadingZeros(rem, d) == CHOOSE z \in 0 .. 19 : rem * 2^(z + 1) >= d /\ rem * 2^z < d

FromFraction(rem, d, z) == Round53(FracBits(rem, d, 54), -(z + 54), FracRem(rem, d, 54) # 0)

\* The double n / d of the integers n >= 1 and d >= 1.
FloatDiv(n, d) ==
    IF n \div d > 0
    THEN Round53(IntBits(n \div d) \o FracBits(n % d, d, 54 - BitLength(n \div d)),
                 -(54 - BitLength(n \div d)),
                 FracRem(n % d, d, 54 - BitLength(n \div d)) # 0)
    ELSE FromFraction(n * 2^LeadingZeros(n, d), d, LeadingZeros(n, d))

\* A natural number as its digits <<high, middle, low>> in base 2^18 = 262144
\* (the high one is not bounded): the number 53 binary digits read, the
\* product by a small integer, the comparison, the difference, the binary
\* digits.
Limbs(m) ==
    <<BitsInt(SubSeq(m, 1, 17)), BitsInt(SubSeq(m, 18, 35)), BitsInt(SubSeq(m, 36, 53))>>

LimbsTimes(a, j) ==
    <<a[1] * j + (a[2] * j + (a[3] * j) \div 262144) \div 262144,
      (a[2] * j + (a[3] * j) \div 262144) % 262144,
      (a[3] * j) % 262144>>

LimbsGeq(a, b) ==
    \/ a[1] > b[1]
    \/ a[1] = b[1] /\ a[2] > b[2]
    \/ a[1] = b[1] /\ a[2] = b[2] /\ a[3] >= b[3]

LimbsSub(a, b) ==
    <<a[1] - b[1] - (IF a[2] - b[2] - (IF a[3] < b[3] THEN 1 ELSE 0) < 0 THEN 1 ELSE 0),
      (a[2] - b[2] - (IF a[3] < b[3] THEN 1 ELSE 0)) % 262144,
      (a[3] - b[3]) % 262144>>

LimbsBits(a) == IntBits(a[1]) \o FixedBits(a[2], 18) \o FixedBits(a[3], 18)

RoundProduct(p, e) == IF Len(p) = 53 THEN [m |-> p, e |-> e] ELSE Round53(p, e, FALSE)

\* The double h * x of the integer h >= 1 and the double x.
FloatMul(h, x) == RoundProduct(LimbsBits(LimbsTimes(Limbs(x.m), h)), x.e)

\* The first 3 * k binary digits of rem / M (rem < M < 2^53, as limbs), three at
\* a time, and the remainder after them.
RECURSIVE QuotDigits(_, _, _)
PrependBits(bits, pair) == <<bits \o pair[1], pair[2]>>
EmitDigit(scaled, M, k, digit) ==
    IF digit = 0 THEN PrependBits(FixedBits(0, 3), QuotDigits(scaled, M, k - 1))
    ELSE PrependBits(FixedBits(digit, 3),
                     QuotDigits(LimbsSub(scaled, LimbsTimes(M, digit)), M, k - 1))
WithDigit(scaled, M, k) ==
    EmitDigit(scaled, M, k, Cardinality({j \in 1 .. 7 : LimbsGeq(scaled, LimbsTimes(M, j))}))
QuotDigits(rem, M, k) ==
    IF k = 0 THEN <<FixedBits(0, 0), rem>> ELSE WithDigit(LimbsTimes(rem, 8), M, k)

RoundQuotient(q, e) == Round53(q[1], e, q[2] # <<0, 0, 0>>)

\* v * 2^z in 53 binary digits, for v of 52 - z digits.
Shifted53(vb) == [i \in 1 .. 53 |-> IF 2 <= i /\ i <= Len(vb) + 1 THEN vb[i - 1] ELSE 0]

\* The binary digits of rem / M, for rem of 52 binary digits and M of 53,
\* start with 1 after one doubling or after two; z zeros precede rem / M.
QuotientFrom(rem, M, z, e) ==
    IF LimbsGeq(LimbsTimes(rem, 2), M)
    THEN RoundQuotient(QuotDigits(rem, M, 18), -(z + 54) - e)
    ELSE RoundQuotient(QuotDigits(LimbsTimes(rem, 2), M, 18), -(z + 1 + 54) - e)

\* The double v / x of the integer v >= 1 and the double x > v / 2^52.
FloatDivBy(v, x) ==
    QuotientFrom(Limbs(Shifted53(IntBits(v))), Limbs(x.m), 52 - BitLength(v), x.e)

\* Python int() of a double 0 <= x < 2^30.
FloatTrunc(x) == IF 53 + x.e <= 0 THEN 0 ELSE BitsInt(SubSeq(x.m, 1, 53 + x.e))

\* int(v / target_ratio) and int(v * target_ratio) for target_ratio = r[1] / r[2]
\* and v >= 1, as the floats compute them.
FloatIntDivRatio(v, r) == FloatTrunc(FloatDivBy(v, FloatDiv(r[1], r[2])))
FloatIntMulRatio(v, r) == FloatTrunc(FloatMul(v, FloatDiv(r[1], r[2])))

\* int(v / target_ratio) and int(v * target_ratio) for target_ratio = r[1] / r[2].
\* A quotient that is not an integer is at least 1/1000 away from the integers,
\* far more than the roundings of the two float operations change, so its
\* truncation is that of the exact quotient; an integer quotient is computed
\* as the floats compute it.  int() truncates toward zero.
IntDivRatio(v, r) ==
    IF (v * r[2]) % r[1] # 0 THEN Trunc(v * r[2], r[1])
    ELSE IF v > 0 THEN FloatIntDivRatio(v, r)
    ELSE IF v < 0 THEN -FloatIntDivRatio(-v, r)
    ELSE 0
IntMulRatio(v, r) ==
    IF (v * r[1]) % r[2] # 0 THEN Trunc(v * r[1], r[2])
    ELSE IF v > 0 THEN FloatIntMulRatio(v, r)
    ELSE IF v < 0 THEN -FloatIntMulRatio(-v, r)
    ELSE 0

\* current_ratio > target_ratio, where current_ratio is 0 when the height is not
\* positive.  Two different ratios of these integers are further apart than
\* the roundings of the float divisions, so the floats compare as the ratios.
TooWide(w, h, r) == h > 0 /\ w * r[2] > r[1] * h

apply_aspect_ratio_constraint(c, aspect_ratio) ==
    IF aspect_ratio = None THEN c
    ELSE IF TooWide(c[3] - c[1], c[4] - c[2], Val(aspect_ratio))
    THEN <<c[1], c[2], c[3], c[2] + IntDivRatio(c[3] - c[1], Val(aspect_ratio))>>
    ELSE <<c[1], c[2], c[1] + IntMulRatio(c[4] - c[2], Val(aspect_ratio)), c[4]>>

apply_size_constraint(c, locked_size) ==
    IF locked_size = None THEN c
    ELSE <<c[1], c[2], c[1] + Val(locked_size)[1], c[2] + Val(locked_size)[2]>>

\* "Apply constraints if enabled": the size lock first, else the aspect lock.
ApplyConstraints(pw, c) ==
    IF pw.lock_size /\ pw.locked_size # None
      THEN apply_size_constraint(c, pw.locked_size)
    ELSE IF pw.lock_aspect_ratio /\ pw.aspect_ratio # None
      THEN apply_aspect_ratio_constraint(c, pw.aspect_ratio)
    ELSE c

RectOf(c) == QRect(c[1], c[2], c[3] - c[1], c[4] - c[2])

-----------------------------------------------------------------------------
(* VideoPreviewWidget: shadow crops *)

\* update_shadow_crops testing the left edge of a shadow rectangle against
\* the frame width instead of its right edge.
ShadowRects_LeftEdge(crop, frame_width, num_segments) ==
    SelectSeq([i \in 1 .. (num_segments - 1) |->
                  QRect(crop.x1 + width(crop) * i, crop.y1, width(crop), height(crop))],
              LAMBDA r : r.x1 <= frame_width)

\* The shadow rectangles of crop, in frame coordinates.
ShadowRects(crop, frame_width, num_segments) ==
    SelectSeq([i \in 1 .. (num_segments - 1) |->
                  QRect(crop.x1 + width(crop) * i, crop.y1, width(crop), height(crop))],
              LAMBDA r : r.x1 + width(crop) <= frame_width)

\* Their widget rectangles (one is appended only if both its corners are truthy).
ShadowRectsWidget(pw, shown) ==
    [i \in 1 .. Len(shown) |-> ProjectRect(pw, shown[i])]

StoreShadows(s, shadows) ==
    [s EXCEPT !.pw.shadow_crop_rects = shadows,
              !.pw.shadow_crop_rects_widget =
                  ShadowRectsWidget(s.pw, SelectSeq(shadows, LAMBDA r : ProjectionTruthy(s.pw, r)))]

\* update_shadow_crops starting its loop at the second candidate.
update_shadow_crops_FromSecond(s, num_segments) ==
    IF ~RectTruthy(s.pw.crop_rect) \/ num_segments <= 1
    THEN [s EXCEPT !.pw.shadow_crop_rects = <<>>,
                   !.pw.shadow_crop_rects_widget = <<>>]
    ELSE StoreShadows(s, SelectSeq(ShadowRects(Val(s.pw.crop_rect), Val(s.pw.current_frame).w,
                                               num_segments),
                                   LAMBDA r : r.x1 # Val(s.pw.crop_rect).x2 + 1))

update_shadow_crops(s, num_segments) ==
    IF ~RectTruthy(s.pw.crop_rect) \/ num_segments <= 1
    THEN [s EXCEPT !.pw.shadow_crop_rects = <<>>,
                   !.pw.shadow_crop_rects_widget = <<>>]
    ELSE StoreShadows(s, ShadowRects(Val(s.pw.crop_rect), Val(s.pw.current_frame).w, num_segments))

\* MainWindow slot connected to the crop_changed signal.
on_crop_changed(s, rect) ==
    update_shadow_crops([s EXCEPT !.mw.crop_rect = Some(rect)], s.mw.shadow_count)

\* set_shadow_count storing the count without the call of update_shadow_crops.
set_shadow_count_StoreOnly(s, count) == [s EXCEPT !.pw.shadow_count = count]

set_shadow_count(s, count) ==
    IF RectTruthy(s.pw.crop_rect)
    THEN update_shadow_crops([s EXCEPT !.pw.shadow_count = count], count)
    ELSE [s EXCEPT !.pw.shadow_count = count]

-----------------------------------------------------------------------------
(* VideoPreviewWidget: rectangle from the drawn points *)

\* "Get raw coordinates"
RawCoordinates(sp, ep) ==
    <<Min(sp.x, ep.x), Min(sp.y, ep.y), Max(sp.x, ep.x), Max(sp.y, ep.y)>>

\* "Clamp to frame boundaries"
ClampToBoundaries(c, frame) ==
    <<Max(0, Min(c[1], frame.w - 1)), Max(0, Min(c[2], frame.h - 1)),
      Max(0, Min(c[3], frame.w)), Max(0, Min(c[4], frame.h))>>

\* update_crop_rect without the floor of lines 726-730: the clamped
\* coordinates are used as they are.
EnsureMinimumSize_Unfloored(c, frame) == c

\* "Ensure minimum size (at least 1x1)"
EnsureMinimumSize(c, frame) ==
    <<c[1], c[2],
      IF c[3] <= c[1] THEN Min(c[1] + 1, frame.w) ELSE c[3],
      IF c[4] <= c[2] THEN Min(c[2] + 1, frame.h) ELSE c[4]>>

\* The frame rectangle of the drawn points.
DrawnRect(pw) ==
    RectOf(EnsureMinimumSize(
             ClampToBoundaries(
               ApplyConstraints(pw, RawCoordinates(Val(pw.start_point), Val(pw.end_point))),
               Val(pw.current_frame)),
             Val(pw.current_frame)))

\* The widget rectangle of the drawn widget points w = <<x1_w, y1_w, x2_w, y2_w>>,
\* clamped to the pixmap pr, at least 1 x 1.
ClampToPixmap(w, pr) ==
    <<Max(pr.x1, Min(w[1], pr.x2)), Max(pr.y1, Min(w[2], pr.y2)),
      Max(pr.x1, Min(w[3], pr.x2)), Max(pr.y1, Min(w[4], pr.y2))>>

EnsureMinimumSizeWidget(w, pr) ==
    <<w[1], w[2],
      IF w[3] <= w[1] THEN Min(w[1] + 1, pr.x2) ELSE w[3],
      IF w[4] <= w[2] THEN Min(w[2] + 1, pr.y2) ELSE w[4]>>

DrawnRectWidget(pw) ==
    RectOf(EnsureMinimumSizeWidget(
             ClampToPixmap(RawCoordinates(Val(pw.start_point_widget), Val(pw.end_point_widget)),
                           pixmap_rect(pw)),
             pixmap_rect(pw)))

\* Stores the rectangle, its widget rectangle, emits crop_changed and updates the shadows.
StoreDrawnRect(s, rect) ==
    update_shadow_crops(
        on_crop_changed(
            IF PointTruthy(s.pw.start_point_widget) /\ PointTruthy(s.pw.end_point_widget)
            THEN [s EXCEPT !.pw.crop_rect = Some(rect),
                           !.pw.crop_rect_widget = Some(DrawnRectWidget(s.pw))]
            ELSE [s EXCEPT !.pw.crop_rect = Some(rect)],
            rect),
        s.pw.shadow_count)

update_crop_rect(s) ==
    IF PointTruthy(s.pw.start_point) /\ PointTruthy(s.pw.end_point) /\ s.pw.current_frame # None
    THEN StoreDrawnRect(s, DrawnRect(s.pw))
    ELSE s

\* clear_crop without lines 797-798: the points are reset, the rectangle
\* and its widget rectangle are kept.
clear_crop_KeepingRect(s) ==
    [s EXCEPT !.pw.shadow_crop_rects = <<>>,
              !.pw.shadow_crop_rects_widget = <<>>,
              !.pw.start_point = None,
              !.pw.end_point = None,
              !.pw.start_point_widget = None,
              !.pw.end_point_widget = None]

clear_crop(s) ==
    [s EXCEPT !.pw.crop_rect = None,
              !.pw.crop_rect_widget = None,
              !.pw.shadow_crop_rects = <<>>,
              !.pw.shadow_crop_rects_widget = <<>>,
              !.pw.start_point = None,
              !.pw.end_point = None,
              !.pw.start_point_widget = None,
              !.pw.end_point_widget = None]

set_frame(s, frame) ==
    IF frame = None THEN s
    ELSE update_base_pixmap([s EXCEPT !.pw.current_frame = frame])

-----------------------------------------------------------------------------
(* VideoPreviewWidget: adjusting an existing rectangle *)

LeftHandles == {"resize_tl", "resize_bl", "resize_l"}
RightHandles == {"resize_tr", "resize_br", "resize_r"}
TopHandles == {"resize_tl", "resize_tr", "resize_t"}
BottomHandles == {"resize_bl", "resize_br", "resize_b"}
CornerHandles == {"resize_tl", "resize_tr", "resize_bl", "resize_br"}
Handles == CornerHandles \cup {"resize_t", "resize_b", "resize_l", "resize_r", "move"}

\* "Clamp mouse to pixmap bounds"
ClampPoint(p, pr) ==
    QPoint(Max(pr.x1, Min(p.x, pr.x2)), Max(pr.y1, Min(p.y, pr.y2)))

ClampMouse(pw, mouse_pos) ==
    IF pw.base_pixmap # None THEN ClampPoint(mouse_pos, pixmap_rect(pw)) ELSE mouse_pos

\* <<delta_x, delta_y>> of the mouse from the press point.
MouseDeltas(pw, p) ==
    <<p.x - Val(pw.start_point_widget).x, p.y - Val(pw.start_point_widget).y>>

\* The deltas after the aspect-ratio adjustment of a resize, for the ratio r.
AspectDeltas(mode, orig, d, r) ==
    IF mode \in CornerHandles
    THEN IF Abs(d[1]) > Abs(d[2])
         THEN LET new_width == IF mode \in {"resize_tr", "resize_br"}
                               THEN width(orig) + d[1] ELSE width(orig) - d[1]
                  new_height == IntDivRatio(new_width, r)
              IN  <<d[1], IF mode \in {"resize_tl", "resize_tr"}
                          THEN height(orig) - new_height ELSE new_height - height(orig)>>
         ELSE LET new_height == IF mode \in {"resize_tl", "resize_tr"}
                                THEN height(orig) - d[2] ELSE height(orig) + d[2]
                  new_width == IntMulRatio(new_height, r)
              IN  <<IF mode \in {"resize_tl", "resize_bl"}
                    THEN width(orig) - new_width ELSE new_width - width(orig), d[2]>>
    ELSE IF mode \in {"resize_t", "resize_b"}
    THEN LET new_height == IF mode = "resize_t" THEN height(orig) - d[2] ELSE height(orig) + d[2]
             new_width == IntMulRatio(new_height, r)
         IN  <<new_width - width(orig), d[2]>>
    ELSE IF mode \in {"resize_l", "resize_r"}
    THEN LET new_width == IF mode = "resize_l" THEN width(orig) - d[1] ELSE width(orig) + d[1]
             new_height == IntDivRatio(new_width, r)
         IN  <<d[1], new_height - height(orig)>>
    ELSE d

\* "If aspect ratio is locked, maintain it during resize"
AdjustDeltas(pw, d) ==
    IF pw.lock_aspect_ratio /\ pw.aspect_ratio # None /\ pw.adjust_mode # Some("move")
    THEN AspectDeltas(Val(pw.adjust_mode), Val(pw.original_crop_rect_widget), d,
                      Val(pw.aspect_ratio))
    ELSE d

\* "For move, maintain size and constrain position"
MovedRectWidget(orig, d, pr, hasPixmap) ==
    QRect(IF hasPixmap THEN Max(pr.x1, Min(orig.x1 + d[1], pr.x2 - width(orig)))
                       ELSE orig.x1 + d[1],
          IF hasPixmap THEN Max(pr.y1, Min(orig.y1 + d[2], pr.y2 - height(orig)))
                       ELSE orig.y1 + d[2],
          width(orig), height(orig))

\* "Calculate new widget rect based on adjust mode"
NewRectWidget(mode, orig, d, pr, hasPixmap) ==
    CASE mode = "move" -> MovedRectWidget(orig, d, pr, hasPixmap)
      [] mode = "resize_tl" ->
           QRect(orig.x1 + d[1], orig.y1 + d[2], width(orig) - d[1], height(orig) - d[2])
      [] mode = "resize_tr" ->
           QRect(orig.x1, orig.y1 + d[2], width(orig) + d[1], height(orig) - d[2])
      [] mode = "resize_bl" ->
           QRect(orig.x1 + d[1], orig.y1, width(orig) - d[1], height(orig) + d[2])
      [] mode = "resize_br" ->
           QRect(orig.x1, orig.y1, width(orig) + d[1], height(orig) + d[2])
      [] mode = "resize_t" -> QRect(orig.x1, orig.y1 + d[2], width(orig), height(orig) - d[2])
      [] mode = "resize_b" -> QRect(orig.x1, orig.y1, width(orig), height(orig) + d[2])
      [] mode = "resize_l" -> QRect(orig.x1 + d[1], orig.y1, width(orig) - d[1], height(orig))
      [] mode = "resize_r" -> QRect(orig.x1, orig.y1, width(orig) + d[1], height(orig))

\* "Constrain left edge"
ConstrainLeft(mode, r, orig, pr) ==
    IF r.x1 >= pr.x1 THEN r
    ELSE IF mode \in LeftHandles THEN [r EXCEPT !.x1 = pr.x1]
    ELSE [r EXCEPT !.x1 = pr.x1, !.x2 = pr.x1 + width(orig)]

\* "Constrain top edge"
ConstrainTop(mode, r, orig, pr) ==
    IF r.y1 >= pr.y1 THEN r
    ELSE IF mode \in TopHandles THEN [r EXCEPT !.y1 = pr.y1]
    ELSE [r EXCEPT !.y1 = pr.y1, !.y2 = pr.y1 + height(orig)]

\* "Constrain right edge"
ConstrainRight(mode, r, orig, pr) ==
    IF r.x2 <= pr.x2 THEN r
    ELSE IF mode \in RightHandles THEN [r EXCEPT !.x2 = pr.x2]
    ELSE [r EXCEPT !.x2 = pr.x2, !.x1 = pr.x2 - width(orig)]

\* "Constrain bottom edge"
ConstrainBottom(mode, r, orig, pr) ==
    IF r.y2 <= pr.y2 THEN r
    ELSE IF mode \in BottomHandles THEN [r EXCEPT !.y2 = pr.y2]
    ELSE [r EXCEPT !.y2 = pr.y2, !.y1 = pr.y2 - height(orig)]

\* "Clamp widget rect to pixmap bounds (for resize modes, prevent shrinking)"
ClampResize(mode, r, orig, pr, hasPixmap) ==
    IF hasPixmap /\ mode # "move"
    THEN ConstrainBottom(mode,
           ConstrainRight(mode,
             ConstrainTop(mode,
               ConstrainLeft(mode, r, orig, pr), orig, pr), orig, pr), orig, pr)
    ELSE r

\* "Ensure minimum size" of the widget rectangle.
MinimumWidgetSize == 10

EnsureMinimumWidth(mode, r) ==
    IF width(r) >= MinimumWidgetSize THEN r
    ELSE IF mode \in LeftHandles THEN [r EXCEPT !.x1 = r.x2 - MinimumWidgetSize]
    ELSE [r EXCEPT !.x2 = r.x1 + MinimumWidgetSize]

EnsureMinimumHeight(mode, r) ==
    IF height(r) >= MinimumWidgetSize THEN r
    ELSE IF mode \in TopHandles THEN [r EXCEPT !.y1 = r.y2 - MinimumWidgetSize]
    ELSE [r EXCEPT !.y2 = r.y1 + MinimumWidgetSize]

\* new_rect_widget for the deltas d.
AdjustedRectWidget(pw, d) ==
    EnsureMinimumHeight(Val(pw.adjust_mode),
      EnsureMinimumWidth(Val(pw.adjust_mode),
        ClampResize(Val(pw.adjust_mode),
                    NewRectWidget(Val(pw.adjust_mode), Val(pw.original_crop_rect_widget), d,
                                  pixmap_rect(pw), pw.base_pixmap # None),
                    Val(pw.original_crop_rect_widget), pixmap_rect(pw), pw.base_pixmap # None)))

\* "Get original frame rect size for reference"
OrigSize(pw, tl, br) ==
    IF RectTruthy(pw.original_crop_rect)
    THEN <<width(Val(pw.original_crop_rect)), height(Val(pw.original_crop_rect))>>
    ELSE <<br.x - tl.x, br.y - tl.y>>

\* "Clamp to frame bounds while maintaining size for move mode"
MoveWithin(tl, orig_size, frame) ==
    <<Max(0, Min(tl.x, frame.w - orig_size[1])),
      Max(0, Min(tl.y, frame.h - orig_size[2])),
      Max(0, Min(tl.x, frame.w - orig_size[1])) + orig_size[1],
      Max(0, Min(tl.y, frame.h - orig_size[2])) + orig_size[2]>>

\* "Ensure we don't exceed bounds"
DontExceed(c, orig_size, frame) ==
    <<IF c[3] > frame.w THEN frame.w - orig_size[1] ELSE c[1],
      IF c[4] > frame.h THEN frame.h - orig_size[2] ELSE c[2],
      IF c[3] > frame.w THEN frame.w ELSE c[3],
      IF c[4] > frame.h THEN frame.h ELSE c[4]>>

\* "For resize modes, clamp normally"
ResizeWithin(tl, br, frame) ==
    <<Max(0, Min(tl.x, frame.w - 1)),
      Max(0, Min(tl.y, frame.h - 1)),
      Max(Max(0, Min(tl.x, frame.w - 1)) + 1, Min(br.x, frame.w)),
      Max(Max(0, Min(tl.y, frame.h - 1)) + 1, Min(br.y, frame.h))>>

ClampToFrame(mode, tl, br, orig_size, frame) ==
    IF mode = "move"
    THEN DontExceed(MoveWithin(tl, orig_size, frame), orig_size, frame)
    ELSE ResizeWithin(tl, br, frame)

\* "Ensure minimum size and valid bounds"
EnsureValidBounds(c, frame) ==
    <<c[1], c[2],
      IF c[3] <= c[1] THEN Min(c[1] + 1, frame.w) ELSE c[3],
      IF c[4] <= c[2] THEN Min(c[2] + 1, frame.h) ELSE c[4]>>

\* "Adjust to fit within bounds", the two negative-origin cases, then the two overshoots.
FitOrigin(c) ==
    <<IF c[1] < 0 THEN 0 ELSE c[1],
      IF c[2] < 0 THEN 0 ELSE c[2],
      IF c[1] < 0 THEN c[3] - c[1] ELSE c[3],
      IF c[2] < 0 THEN c[4] - c[2] ELSE c[4]>>

FitExtent(c, frame) ==
    <<IF c[3] > frame.w THEN Max(0, c[1] - (c[3] - frame.w)) ELSE c[1],
      IF c[4] > frame.h THEN Max(0, c[2] - (c[4] - frame.h)) ELSE c[2],
      IF c[3] > frame.w THEN frame.w ELSE c[3],
      IF c[4] > frame.h THEN frame.h ELSE c[4]>>

\* "Final validation - ensure crop is completely within frame"
FinalValidation(c, frame) ==
    IF c[1] < 0 \/ c[2] < 0 \/ c[3] > frame.w \/ c[4] > frame.h
    THEN FitExtent(FitOrigin(c), frame)
    ELSE c

\* "Apply constraints if enabled" of the adjusted rectangle.
ApplyAdjustConstraints(pw, c) ==
    IF pw.lock_size /\ pw.locked_size # None
      THEN apply_size_constraint(c, pw.locked_size)
    ELSE IF pw.lock_aspect_ratio /\ pw.aspect_ratio # None
      THEN apply_aspect_ratio_constraint(c, pw.aspect_ratio)
    ELSE c

\* "For move mode with locked size, maintain size"
ReclampMove(c, frame) ==
    <<Max(0, Min(c[1], frame.w - (c[3] - c[1]))),
      Max(0, Min(c[2], frame.h - (c[4] - c[2]))),
      Max(0, Min(c[1], frame.w - (c[3] - c[1]))) + (c[3] - c[1]),
      Max(0, Min(c[2], frame.h - (c[4] - c[2]))) + (c[4] - c[2])>>

\* "Re-clamp to frame bounds after constraint application"
ReclampToFrame(pw, c, frame) ==
    IF pw.adjust_mode = Some("move") /\ (pw.lock_size \/ pw.lock_aspect_ratio)
    THEN ReclampMove(c, frame)
    ELSE <<Max(0, Min(c[1], frame.w - 1)), Max(0, Min(c[2], frame.h - 1)),
           Max(0, Min(c[3], frame.w)), Max(0, Min(c[4], frame.h))>>

\* The frame rectangle of the adjusted widget rectangle with frame corners tl and br.
AdjustedRect(pw, tl, br) ==
    RectOf(ReclampToFrame(pw,
             ApplyAdjustConstraints(pw,
               FinalValidation(
                 EnsureValidBounds(
                   ClampToFrame(Val(pw.adjust_mode), tl, br, OrigSize(pw, tl, br),
                                Val(pw.current_frame)),
                   Val(pw.current_frame)),
                 Val(pw.current_frame))),
             Val(pw.current_frame)))

\* Stores the frame rectangle, "Update widget coordinates", emits crop_changed.
StoreAdjustedRect(s, rect) ==
    on_crop_changed(
        IF ProjectionTruthy(s.pw, rect)
        THEN [s EXCEPT !.pw.crop_rect = Some(rect),
                       !.pw.crop_rect_widget = Some(ProjectRect(s.pw, rect))]
        ELSE [s EXCEPT !.pw.crop_rect = Some(rect)],
        rect)

\* "Convert back to frame coordinates"
ConvertBack(s, top_left_frame, bottom_right_frame) ==
    IF PointTruthy(top_left_frame) /\ PointTruthy(bottom_right_frame)
    THEN StoreAdjustedRect(s, AdjustedRect(s.pw, Val(top_left_frame), Val(bottom_right_frame)))
    ELSE s

StoreAdjustedRectWidget(s, new_rect_widget) ==
    ConvertBack([s EXCEPT !.pw.crop_rect_widget = Some(new_rect_widget)],
                widget_to_frame_coords(s.pw, topLeft(new_rect_widget)),
                widget_to_frame_coords(s.pw, bottomRight(new_rect_widget)))

adjust_crop_rect(s, mouse_pos_widget) ==
    IF ~RectTruthy(s.pw.original_crop_rect_widget) \/ s.pw.current_frame = None THEN s
    ELSE IF s.pw.start_point_widget = None THEN Abort(s)
    ELSE IF s.pw.adjust_mode = None \/ Val(s.pw.adjust_mode) \notin Handles THEN s
    ELSE StoreAdjustedRectWidget(s,
           AdjustedRectWidget(s.pw,
             AdjustDeltas(s.pw, MouseDeltas(s.pw, ClampMouse(s.pw, mouse_pos_widget)))))

-----------------------------------------------------------------------------
(* VideoPreviewWidget: mouse events and resize *)

\* "Fine-tuning existing crop"
BeginAdjust(s, handle, mouse_pos) ==
    [s EXCEPT !.pw.adjusting = TRUE,
              !.pw.adjust_mode = handle,
              !.pw.original_crop_rect =
                  IF RectTruthy(s.pw.crop_rect) THEN s.pw.crop_rect ELSE None,
              !.pw.original_crop_rect_widget =
                  IF RectTruthy(s.pw.crop_rect_widget) THEN s.pw.crop_rect_widget ELSE None,
              !.pw.start_point_widget = Some(mouse_pos),
              !.pw.end_point_widget = Some(mouse_pos)]

\* "Creating new crop selection"
BeginDraw(s, mouse_pos, frame_point) ==
    IF PointTruthy(frame_point)
    THEN update_crop_rect([s EXCEPT !.pw.drawing = TRUE,
                                    !.pw.adjusting = FALSE,
                                    !.pw.adjust_mode = None,
                                    !.pw.start_point = frame_point,
                                    !.pw.end_point = frame_point,
                                    !.pw.start_point_widget = Some(mouse_pos),
                                    !.pw.end_point_widget = Some(mouse_pos)])
    ELSE [s EXCEPT !.pw.drawing = TRUE,
                   !.pw.adjusting = FALSE,
                   !.pw.adjust_mode = None]

PressOn(s, handle, mouse_pos) ==
    IF handle # None
    THEN BeginAdjust(s, handle, mouse_pos)
    ELSE BeginDraw(s, mouse_pos, widget_to_frame_coords(s.pw, mouse_pos))

mousePressEvent(s, mouse_pos) ==
    IF s.pw.current_frame = None THEN s
    ELSE PressOn(s,
                 IF RectTruthy(s.pw.crop_rect_widget)
                 THEN get_crop_handle_at(s.pw, mouse_pos) ELSE None,
                 mouse_pos)

\* The pointer position of a draw move after the aspect-ratio adjustment:
\* "Use the larger delta to determine size, then adjust the other dimension".
ConstrainedDrawPoint(p, start, r) ==
    LET delta_x == p.x - start.x
        delta_y == p.y - start.y
    IN  IF Abs(delta_x) > Abs(delta_y)
        THEN QPoint(IF delta_x < 0 THEN start.x - Abs(delta_x) ELSE start.x + Abs(delta_x),
                    IF delta_y < 0 THEN start.y - IntDivRatio(Abs(delta_x), r)
                                   ELSE start.y + IntDivRatio(Abs(delta_x), r))
        ELSE QPoint(IF delta_x < 0 THEN start.x - IntMulRatio(Abs(delta_y), r)
                                   ELSE start.x + IntMulRatio(Abs(delta_y), r),
                    IF delta_y < 0 THEN start.y - Abs(delta_y) ELSE start.y + Abs(delta_y))

\* "If aspect ratio is set, maintain it during dragging", with the re-clamp.
ConstrainDraw(pw, p) ==
    IF pw.lock_aspect_ratio /\ pw.aspect_ratio # None /\ PointTruthy(pw.start_point_widget)
    THEN ClampMouse(pw, ConstrainedDrawPoint(p, Val(pw.start_point_widget), Val(pw.aspect_ratio)))
    ELSE p

DrawTo(s, mouse_pos, frame_point) ==
    IF PointTruthy(frame_point)
    THEN update_crop_rect([s EXCEPT !.pw.end_point = frame_point,
                                    !.pw.end_point_widget = Some(mouse_pos)])
    ELSE s

DrawToWidgetPoint(s, mouse_pos) ==
    DrawTo(s, mouse_pos, widget_to_frame_coords(s.pw, mouse_pos))

\* mouseMoveEvent extending the selection whether or not the button is held.
mouseMoveEvent_Hovering(s, mouse_pos) ==
    IF s.pw.adjusting /\ s.pw.current_frame # None /\ RectTruthy(s.pw.original_crop_rect_widget)
    THEN adjust_crop_rect(s, mouse_pos)
    ELSE IF s.pw.current_frame # None
    THEN DrawToWidgetPoint(s, ConstrainDraw(s.pw, ClampMouse(s.pw, mouse_pos)))
    ELSE s

mouseMoveEvent(s, mouse_pos) ==
    IF s.pw.adjusting /\ s.pw.current_frame # None /\ RectTruthy(s.pw.original_crop_rect_widget)
    THEN adjust_crop_rect(s, mouse_pos)
    ELSE IF s.pw.drawing /\ s.pw.current_frame # None
    THEN DrawToWidgetPoint(s, ConstrainDraw(s.pw, ClampMouse(s.pw, mouse_pos)))
    ELSE s

FinishDraw(s) ==
    IF PointTruthy(s.pw.start_point) /\ PointTruthy(s.pw.end_point)
    THEN update_crop_rect(s) ELSE s

mouseReleaseEvent(s) ==
    IF s.pw.adjusting
    THEN [s EXCEPT !.pw.adjusting = FALSE,
                   !.pw.adjust_mode = None,
                   !.pw.original_crop_rect = None,
                   !.pw.original_crop_rect_widget = None]
    ELSE FinishDraw([s EXCEPT !.pw.drawing = FALSE])

\* resizeEvent re-deriving the rectangle from the drawn points (a call of
\* update_crop_rect) instead of projecting the stored one.
Reproject_FromPoints(s) == update_crop_rect(s)

\* "Recalculate crop rect widget coordinates"
Reproject(s) ==
    IF RectTruthy(s.pw.crop_rect)
    THEN update_shadow_crops(
             [s EXCEPT !.pw.crop_rect_widget = Some(ProjectRect(s.pw, Val(s.pw.crop_rect)))],
             s.pw.shadow_count)
    ELSE s

\* The widget has been given the size new_size.
resizeEvent(s, new_size) ==
    IF s.pw.current_frame = None
    THEN [s EXCEPT !.pw.size = new_size]
    ELSE Reproject(update_base_pixmap([s EXCEPT !.pw.size = new_size]))

-----------------------------------------------------------------------------
(* MainWindow: content *)

\* The size of the rotated frame.
apply_rotation(rotation, frame) ==
    IF rotation = 90 \/ rotation = 270 THEN QSize(frame.h, frame.w) ELSE frame

\* video_cap.read() of an opened video: a frame of the video's native size.
Read(video_cap) == Some(Val(video_cap))

ShowFrame(s, frame) ==
    IF frame = None THEN s
    ELSE set_frame(s, Some(apply_rotation(s.mw.rotation, Val(frame))))

load_frame(s) ==
    IF s.mw.video_cap = None THEN s
    ELSE ShowFrame(s, IF (s.pw.drawing \/ s.pw.crop_rect # None) /\ s.mw.first_frame # None
                      THEN s.mw.first_frame
                      ELSE Read(s.mw.video_cap))

MainWindow_clear_crop(s) ==
    clear_crop([s EXCEPT !.mw.crop_rect = None])

\* "Cache first frame for crop mode"
CacheFirstFrame(s) ==
    [s EXCEPT !.mw.first_frame = Read(s.mw.video_cap)]

\* file is the video chosen in the dialog, which OpenCV opens.
import_video(s, file) ==
    load_frame(CacheFirstFrame(clear_crop([s EXCEPT !.mw.video_cap = Some(file),
                                                    !.mw.rotation = 0,
                                                    !.mw.crop_rect = None])))

\* "Update first frame cache if it exists"
RefreshFirstFrame(s) ==
    IF s.mw.first_frame # None THEN CacheFirstFrame(s) ELSE s

ReloadRotated(s) ==
    IF s.mw.video_cap # None THEN load_frame(s) ELSE s

rotate_video(s, degrees) ==
    ReloadRotated(RefreshFirstFrame(clear_crop([s EXCEPT !.mw.rotation = degrees,
                                                         !.mw.crop_rect = None])))

rotate_left_Unwrapped(s) == rotate_video(s, s.mw.rotation - 90)

rotate_left(s) == rotate_video(s, (s.mw.rotation - 90) % 360)
rotate_right(s) == rotate_video(s, (s.mw.rotation + 90) % 360)

-----------------------------------------------------------------------------
(* MainWindow: constraint controls.  QCheckBox.setChecked and                *)
(* QComboBox.setCurrentText emit their signal, synchronously, only when the  *)
(* value changes.                                                            *)

RECURSIVE on_lock_aspect_toggled(_, _), on_aspect_ratio_changed(_, _)

setChecked(s, checked) ==
    IF s.mw.lock_aspect_checkbox = checked THEN s
    ELSE on_lock_aspect_toggled([s EXCEPT !.mw.lock_aspect_checkbox = checked], checked)

setCurrentText(s, text) ==
    IF s.mw.aspect_ratio_combo = text THEN s
    ELSE on_aspect_ratio_changed([s EXCEPT !.mw.aspect_ratio_combo = text], text)

\* "Show/hide custom ratio inputs"
ShowCustomInputs(s, ratio_text) ==
    IF ratio_text = Custom
    THEN setChecked([s EXCEPT !.mw.custom_ratio_widget_visible = TRUE,
                              !.mw.crop_aspect_ratio =
                                  Some(<<s.mw.custom_width_spin, s.mw.custom_height_spin>>)],
                    TRUE)
    ELSE [s EXCEPT !.mw.custom_ratio_widget_visible = FALSE]

\* The ratio of the selected entry and the lock that goes with it.
SelectRatioValue(s, ratio_text) ==
    IF ratio_text = Free
    THEN setChecked([s EXCEPT !.mw.crop_aspect_ratio = None], FALSE)
    ELSE IF ratio_text # Custom
    THEN setChecked([s EXCEPT !.mw.crop_aspect_ratio =
                                  IF ratio_text \in DOMAIN ratio_map
                                  THEN Some(ratio_map[ratio_text]) ELSE None],
                    TRUE)
    ELSE s

\* "Clear crop if ratio actually changed"
ClearIfChanged(s, old_ratio) ==
    IF old_ratio # s.mw.crop_aspect_ratio THEN MainWindow_clear_crop(s) ELSE s

\* "Update preview widget - always lock when ratio is selected"
UpdatePreviewRatio(s) ==
    [s EXCEPT !.pw.aspect_ratio = s.mw.crop_aspect_ratio,
              !.pw.lock_aspect_ratio = (s.mw.crop_aspect_ratio # None)]

\* The handler from "old_ratio = self.crop_aspect_ratio" on.
ChangeRatio(s, ratio_text) ==
    UpdatePreviewRatio(ClearIfChanged(SelectRatioValue(s, ratio_text), s.mw.crop_aspect_ratio))

on_aspect_ratio_changed(s, ratio_text) ==
    ChangeRatio(ShowCustomInputs(s, ratio_text), ratio_text)

\* "If unlocking and a ratio is selected, clear the ratio"
ClearRatioIfUnlocking(s, locked) ==
    IF ~locked
    THEN setCurrentText([s EXCEPT !.mw.crop_aspect_ratio = None], Free)
    ELSE s

SetPreviewLock(s, locked) ==
    [s EXCEPT !.pw.lock_aspect_ratio = locked,
              !.pw.aspect_ratio = IF locked THEN s.mw.crop_aspect_ratio ELSE None]

\* "If there's an existing crop, update it"
UpdateExistingCrop(s) ==
    IF RectTruthy(s.pw.crop_rect) THEN update_crop_rect(s) ELSE s

on_lock_aspect_toggled(s, locked) ==
    UpdateExistingCrop(SetPreviewLock(ClearRatioIfUnlocking(s, locked), locked))

\* The custom ratio (custom_width, custom_height) becomes the ratio.
SetCustomRatio(s, old_ratio) ==
    [ClearIfChanged([s EXCEPT !.mw.crop_aspect_ratio =
                                  Some(<<s.mw.custom_width_spin, s.mw.custom_height_spin>>)],
                    old_ratio)
       EXCEPT !.pw.aspect_ratio = Some(<<s.mw.custom_width_spin, s.mw.custom_height_spin>>),
              !.pw.lock_aspect_ratio = TRUE]

on_custom_ratio_changed(s) ==
    IF s.mw.aspect_ratio_combo # Custom THEN s
    ELSE SetCustomRatio(s, s.mw.crop_aspect_ratio)

on_shadow_count_changed(s, count) ==
    set_shadow_count([s EXCEPT !.mw.shadow_count = count], count)

-----------------------------------------------------------------------------
(* Events *)

Cur == State(preview_widget, main_window, aborted)

Becomes(s, name) ==
    /\ preview_widget' = s.pw
    /\ main_window' = s.mw
    /\ aborted' = s.aborted
    /\ events' = events + 1
    /\ last_event' = [name |-> name, had_rect |-> preview_widget.crop_rect # None]

\* The process is alive and the run may deliver another event.
Accepting == ~aborted /\ events < MaxEvents

InWidget(p) ==
    /\ 0 <= p.x /\ p.x < preview_widget.size.w
    /\ 0 <= p.y /\ p.y < preview_widget.size.h

Press ==
    /\ Accepting
    /\ \E p \in PressPoints : InWidget(p) /\ Becomes(mousePressEvent(Cur, p), "Press")

Move ==
    /\ Accepting
    /\ \E p \in MovePoints : Becomes(mouseMoveEvent(Cur, p), "Move")

Release ==
    /\ Accepting
    /\ Becomes(mouseReleaseEvent(Cur), "Release")

Resize ==
    /\ Accepting
    /\ \E sz \in WidgetSizes \ {preview_widget.size} : Becomes(resizeEvent(Cur, sz), "Resize")

ClearCrop ==
    /\ Accepting
    /\ Becomes(MainWindow_clear_crop(Cur), "ClearCrop")

ImportVideo ==
    /\ Accepting
    /\ \E file \in Videos : Becomes(import_video(Cur, file), "ImportVideo")

RotateLeft ==
    /\ Accepting
    /\ Becomes(rotate_left(Cur), "RotateLeft")

RotateRight ==
    /\ Accepting
    /\ Becomes(rotate_right(Cur), "RotateRight")

Rotate180 ==
    /\ Accepting
    /\ Becomes(rotate_video(Cur, 180), "Rotate180")

ResetRotation ==
    /\ Accepting
    /\ Becomes(rotate_video(Cur, 0), "ResetRotation")

\* The user picks another entry of the combo box.
SelectRatio ==
    /\ Accepting
    /\ \E text \in ComboItems \ {main_window.aspect_ratio_combo} : Becomes(setCurrentText(Cur, text), "SelectRatio")

\* The user clicks the lock checkbox.
ToggleLock ==
    /\ Accepting
    /\ Becomes(setChecked(Cur, ~main_window.lock_aspect_checkbox), "ToggleLock")

\* The user edits one of the custom ratio spin boxes (shown only with
\* "Custom" selected); both are connected to on_custom_ratio_changed.
EditCustomRatio ==
    /\ Accepting
    /\ main_window.custom_ratio_widget_visible
    /\ \E w \in CustomWidths, h \in CustomHeights :
          /\ (w = main_window.custom_width_spin) # (h = main_window.custom_height_spin)
          /\ Becomes(on_custom_ratio_changed([Cur EXCEPT !.mw.custom_width_spin = w,
                                                         !.mw.custom_height_spin = h]), "EditCustomRatio")

\* The user changes the number of segments.
SetSegments ==
    /\ Accepting
    /\ \E n \in (1 .. MaxSegments) \ {main_window.shadow_count_spin} :
          Becomes(on_shadow_count_changed([Cur EXCEPT !.mw.shadow_count_spin = n], n), "SetSegments")

Init ==
    /\ preview_widget = InitPreviewWidget
    /\ main_window = InitMainWindow
    /\ aborted = FALSE
    /\ events = 0
    /\ last_event = [name |-> "Init", had_rect |-> FALSE]

Next ==
    \/ Press
    \/ Move
    \/ Release
    \/ Resize
    \/ ClearCrop
    \/ ImportVideo
    \/ RotateLeft
    \/ RotateRight
    \/ Rotate180
    \/ ResetRotation
    \/ SelectRatio
    \/ ToggleLock
    \/ EditCustomRatio
    \/ SetSegments

Spec == Init /\ [][Next]_vars

\* The widget with its size lock set: lock_size and locked_size are public
\* attributes of VideoPreviewWidget that its owner assigns.
LockedSize == <<100, 50>>

InitLockSize ==
    /\ preview_widget = [InitPreviewWidget EXCEPT !.lock_size = TRUE,
                                                   !.locked_size = Some(LockedSize)]
    /\ main_window = InitMainWindow
    /\ aborted = FALSE
    /\ events = 0
    /\ last_event = [name |-> "Init", had_rect |-> FALSE]

SpecLockSize == InitLockSize /\ [][Next]_vars

\* A session in which a video has been imported, "Custom" selected, the
\* custom width set to 4 (ratio 4:9) and the number of segments set to 2:
\* the state these four handlers leave, from which the run continues.
TilingSession ==
    on_shadow_count_changed(
        [on_custom_ratio_changed(
            [setCurrentText(import_video(State(InitPreviewWidget, InitMainWindow, FALSE),
                                         QSize(320, 180)),
                            Custom)
               EXCEPT !.mw.custom_width_spin = 4])
           EXCEPT !.mw.shadow_count_spin = 2],
        2)

InitTiling ==
    /\ preview_widget = TilingSession.pw
    /\ main_window = TilingSession.mw
    /\ aborted = TilingSession.aborted
    /\ events = 0
    /\ last_event = [name |-> "Init", had_rect |-> FALSE]

SpecTiling == InitTiling /\ [][Next]_vars

\* The rectangle r lies within the content.
Within(r, content) ==
    /\ 0 <= r.x1
    /\ 0 <= r.y1
    /\ r.x1 + width(r) <= content.w
    /\ r.y1 + height(r) <= content.h

-----------------------------------------------------------------------------
(* update_shadow_crops as a function of the rectangle, the frame and the count *)

\* Frame sizes and rectangles the function is applied to.
Contents == {QSize(250, 200), QSize(320, 180)}
Primaries == {QRect(x, y, w, 50) : x \in {0, 50, 120}, y \in {0, 100}, w \in {50, 100}}

\* Largest count passed to update_shadow_crops (range of num_segments: 0 .. MaxCount).
MaxCount == 4

\* The window showing a video of the size content, holding the rectangle P.
Holding(s, P) ==
    [s EXCEPT !.pw.crop_rect = Some(P),
              !.pw.crop_rect_widget = Some(ProjectRect(s.pw, P)),
              !.mw.crop_rect = Some(P)]

InitGenerate ==
    /\ \E content \in Contents, P \in Primaries :
          /\ Within(P, content)
          /\ preview_widget =
                Holding(import_video(State(InitPreviewWidget, InitMainWindow, FALSE), content), P).pw
          /\ main_window =
                Holding(import_video(State(InitPreviewWidget, InitMainWindow, FALSE), content), P).mw
    /\ aborted = FALSE
    /\ events = 0
    /\ last_event = [name |-> "Init", had_rect |-> FALSE, num_segments |-> 0]

\* update_shadow_crops(num_segments) is called; last_event keeps its argument.
Generate ==
    /\ Accepting
    /\ \E n \in 0 .. MaxCount :
          /\ preview_widget' = update_shadow_crops(Cur, n).pw
          /\ main_window' = update_shadow_crops(Cur, n).mw
          /\ aborted' = update_shadow_crops(Cur, n).aborted
          /\ events' = events + 1
          /\ last_event' = [name |-> "Generate", had_rect |-> TRUE, num_segments |-> n]

SpecGenerate == InitGenerate /\ [][Generate]_vars

-----------------------------------------------------------------------------
(* get_crop_handle_at as a function of the widget rectangle and the point *)

\* Frame rectangles whose widget rectangles (at scale 2: 1, 15 and 59 pixels a
\* side, from (100, 100)) are hit-tested, and the coordinates of the points.
HitPrimaries == {QRect(50, 50, w, h) : w \in {1, 8, 30}, h \in {1, 8, 30}}
HitCoordinates == {89, 90, 95, 100, 104, 105, 110, 114, 115, 125, 129, 148, 149, 158, 168, 169}

InitHitTest ==
    /\ \E P \in HitPrimaries :
          /\ preview_widget =
                Holding(import_video(State(InitPreviewWidget, InitMainWindow, FALSE),
                                     QSize(320, 180)), P).pw
          /\ main_window =
                Holding(import_video(State(InitPreviewWidget, InitMainWindow, FALSE),
                                     QSize(320, 180)), P).mw
    /\ aborted = FALSE
    /\ events = 0
    /\ last_event = [name |-> "Init", had_rect |-> FALSE, point |-> QPoint(0, 0), handle |-> None]

\* get_crop_handle_at(point) is called; last_event keeps the point and the result.
HitTest ==
    /\ Accepting
    /\ \E px \in HitCoordinates, py \in HitCoordinates :
          /\ events' = events + 1
          /\ last_event' = [name |-> "HitTest", had_rect |-> TRUE, point |-> QPoint(px, py),
                            handle |-> get_crop_handle_at(preview_widget, QPoint(px, py))]
    /\ UNCHANGED <<preview_widget, main_window, aborted>>

SpecHitTest == InitHitTest /\ [][HitTest]_vars

-----------------------------------------------------------------------------
(* The coordinate conversions as functions of the transform and the point *)

\* Frame sizes shown at the scales 2, 9/8 (with a horizontal offset), 1/2 and
\* 1/4 in the widget sizes, and the coordinates of the frame points converted.
ConvertContents == {QSize(320, 180), QSize(180, 320), QSize(1280, 720), QSize(2560, 1440)}
ConvertCoordinates == {1, 2, 3, 5, 6, 7, 50, 101, 179}

InitConvert ==
    /\ \E content \in ConvertContents, sz \in WidgetSizes :
          /\ preview_widget =
                resizeEvent(import_video(State(InitPreviewWidget, InitMainWindow, FALSE),
                                         content), sz).pw
          /\ main_window =
                resizeEvent(import_video(State(InitPreviewWidget, InitMainWindow, FALSE),
                                         content), sz).mw
    /\ aborted = FALSE
    /\ events = 0
    /\ last_event = [name |-> "Init", had_rect |-> FALSE, point |-> QPoint(0, 0),
                     display |-> QPoint(0, 0), content |-> None]

\* frame_to_widget_coords(point) is called and widget_to_frame_coords on its
\* result; last_event keeps the point and both results.
Convert ==
    /\ Accepting
    /\ \E px \in ConvertCoordinates, py \in ConvertCoordinates :
          /\ events' = events + 1
          /\ last_event' =
                [name |-> "Convert", had_rect |-> FALSE, point |-> QPoint(px, py),
                 display |-> frame_to_widget_coords(preview_widget, QPoint(px, py)),
                 content |-> widget_to_frame_coords(
                                 preview_widget,
                                 frame_to_widget_coords(preview_widget, QPoint(px, py)))]
    /\ UNCHANGED <<preview_widget, main_window, aborted>>

SpecConvert == InitConvert /\ [][Convert]_vars

-----------------------------------------------------------------------------
(* update_base_pixmap as a function of the frame and the widget size *)

\* Sizes resizeEvent is called with: those of WidgetSizes and empty ones,
\* which the window does not give the widget (its minimum size is
\* MinimumSize) and which reach the handler only when it is called directly.
EmptySizes == {QSize(0, 0), QSize(0, 360), QSize(640, 0)}
SurfaceSizes == WidgetSizes \cup EmptySizes

\* The cached transformation parameters.
Transform(pw) ==
    <<pw.frame_to_widget_scale_x, pw.frame_to_widget_scale_y,
      pw.widget_offset_x, pw.widget_offset_y>>

InitRecompute ==
    /\ \E content \in Contents, sz \in WidgetSizes, P \in Primaries :
          /\ Within(P, content)
          /\ preview_widget =
                Holding(resizeEvent(import_video(State(InitPreviewWidget, InitMainWindow, FALSE),
                                                 content), sz), P).pw
          /\ main_window =
                Holding(resizeEvent(import_video(State(InitPreviewWidget, InitMainWindow, FALSE),
                                                 content), sz), P).mw
    /\ aborted = FALSE
    /\ events = 0
    /\ last_event = [name |-> "Init", had_rect |-> FALSE]

\* resizeEvent is called with the widget at the size sz.
RecomputeTo(sz) ==
    /\ Accepting
    /\ Becomes(resizeEvent(Cur, sz), "Recompute")

Recompute == \E sz \in SurfaceSizes : RecomputeTo(sz)

SpecRecompute == InitRecompute /\ [][Recompute]_vars

-----------------------------------------------------------------------------
(* MainWindow: playback and export.  export_video runs modal dialogs and    *)
(* calls QApplication.processEvents() inside its loops: at each of these     *)
(* points the event loop delivers other events before export_video goes on.  *)

\* Number of frames of the imported video.
TotalFrames == 2

\* The attributes of MainWindow that playback and export use, as import_video
\* leaves them; export is the position of a call of export_video in progress.
\* readable_frames is the number of frames that video_cap.read() returns: all
\* of them, unless set otherwise.
PlaybackFields ==
    [is_playing |-> FALSE, current_frame_idx |-> 0, total_frames |-> TotalFrames,
     readable_frames |-> TotalFrames, export |-> None]

toggle_playback(s) ==
    IF s.mw.video_cap = None THEN s
    ELSE [s EXCEPT !.mw.is_playing = ~s.mw.is_playing]

\* "Always use first frame when there's a crop selection or when drawing crop"
ShowsFirstFrame(s) ==
    (s.pw.drawing \/ s.pw.crop_rect # None) /\ s.mw.first_frame # None

\* load_frame(frame_idx): the cached first frame is shown without a read, or
\* the frame is read; when the read fails load_frame returns before it sets
\* current_frame_idx.  Every frame of the video has the same size.
load_frame_at(s, frame_idx) ==
    IF s.mw.video_cap = None THEN s
    ELSE IF ShowsFirstFrame(s) \/ frame_idx < s.mw.readable_frames
    THEN [load_frame(s) EXCEPT !.mw.current_frame_idx = frame_idx]
    ELSE s

\* Slot of playback_timer.timeout.
next_frame(s) ==
    IF s.mw.current_frame_idx < s.mw.total_frames - 1
    THEN load_frame_at(s, s.mw.current_frame_idx + 1)
    ELSE toggle_playback(s)

\* Slot of frame_slider.valueChanged.  load_frame ends with
\* frame_slider.setValue(frame_idx), which calls this slot again when the
\* value changes: while playing the call does nothing, otherwise it loads the
\* frame that is being loaded.
seek_frame(s, frame_idx) ==
    IF ~s.mw.is_playing THEN load_frame_at(s, frame_idx) ELSE s

\* The collection of the rectangles without the shadows.
AllCropRects_PrimaryOnly(s) ==
    IF RectTruthy(s.mw.crop_rect) THEN <<Val(s.mw.crop_rect)>> ELSE <<>>

\* "Collect all crop rectangles (main + shadows)"
AllCropRects(s) ==
    IF RectTruthy(s.mw.crop_rect)
    THEN <<Val(s.mw.crop_rect)>> \o s.pw.shadow_crop_rects
    ELSE <<>>

\* export_video waits at stage, with the rectangles it collected, the index
\* of the segment, the frames written to it, the segments finished (each
\* with its rectangle and its number of frames) and the cancel request.
ExportAt(s, stage, rects, idx, frame_count, files) ==
    [s EXCEPT !.mw.export =
        Some([stage |-> stage, rects |-> rects, idx |-> idx,
              frame_count |-> frame_count, files |-> files,
              canceled |-> IF s.mw.export = None THEN FALSE
                           ELSE Val(s.mw.export).canceled])]

\* export_video returns.
ExportReturns(s) == [s EXCEPT !.mw.export = None]

\* The export button is clicked: export_video up to dialog.exec().
export_video(s) ==
    IF s.mw.video_cap = None THEN s
    ELSE ExportAt(s, "settings", <<>>, 0, 0, <<>>)

\* dialog.exec() returns: up to the warning box or the file dialog.
ExportDialogReturns(s, accepted) ==
    IF ~accepted THEN ExportReturns(s)
    ELSE IF AllCropRects(s) = <<>>
    THEN ExportAt(s, "message", <<>>, 0, 0, <<>>)
    ELSE ExportAt(s, "path", AllCropRects(s), 0, 0, <<>>)

\* getSaveFileName returns: up to the first processEvents().
ExportPathReturns(s, chosen) ==
    IF ~chosen THEN ExportReturns(s)
    ELSE ExportAt(s, "shown", Val(s.mw.export).rects, 0, 0, <<>>)

\* Head of "for idx, crop_rect in enumerate(all_crop_rects)" up to processEvents().
SegmentHead(s, e) ==
    IF e.idx = Len(e.rects) \/ e.canceled
    THEN ExportAt(s, "message", e.rects, e.idx, 0, e.files)
    ELSE ExportAt(s, "segment", e.rects, e.idx, 0, e.files)

\* Head of "while True" up to processEvents(): a frame is read, cropped and
\* written, or the segment is finished.
FrameHead(s, e) ==
    IF e.canceled
    THEN ExportAt(s, "message", e.rects, e.idx, e.frame_count, e.files)
    ELSE IF e.frame_count < s.mw.total_frames
    THEN ExportAt(s, "frame", e.rects, e.idx, e.frame_count + 1, e.files)
    ELSE SegmentHead(s, [e EXCEPT !.idx = e.idx + 1,
                                  !.files = Append(e.files, <<e.rects[e.idx + 1], e.frame_count>>)])

\* processEvents() returns.
ExportResumes(s) ==
    IF Val(s.mw.export).stage = "shown"
    THEN SegmentHead(s, Val(s.mw.export))
    ELSE FrameHead(s, Val(s.mw.export))

\* A call of export_video is in progress.
Exporting == main_window.export # None

\* The main window receiving input during a call of export_video.
Blocked_NonModal == FALSE

\* A modal window of export_video (the settings dialog, the file dialog, the
\* window-modal progress dialog, a message box) is open: the main window
\* receives no input.
Blocked == Exporting

ExportStage(stages) ==
    /\ ~aborted
    /\ Exporting
    /\ Val(main_window.export).stage \in stages

\* A step that the event loop takes without a new user event on the window.
Continues(s, name) ==
    /\ preview_widget' = s.pw
    /\ main_window' = s.mw
    /\ aborted' = s.aborted
    /\ events' = events
    /\ last_event' = [name |-> name, had_rect |-> preview_widget.crop_rect # None]

ExportVideo ==
    /\ Accepting /\ ~Blocked
    /\ Becomes(export_video(Cur), "ExportVideo")

ExportDialogDone ==
    /\ ExportStage({"settings"})
    /\ \E accepted \in BOOLEAN : Continues(ExportDialogReturns(Cur, accepted), "ExportDialogDone")

ExportPathDone ==
    /\ ExportStage({"path"})
    /\ \E chosen \in BOOLEAN : Continues(ExportPathReturns(Cur, chosen), "ExportPathDone")

ExportResume ==
    /\ ExportStage({"shown", "segment", "frame"})
    /\ Continues(ExportResumes(Cur), "ExportResume")

\* The cancel button of the progress dialog is clicked.
ExportCancel ==
    /\ ExportStage({"shown", "segment", "frame"})
    /\ ~Val(main_window.export).canceled
    /\ Continues([Cur EXCEPT !.mw.export = Some([Val(main_window.export) EXCEPT !.canceled = TRUE])],
                 "ExportCancel")

\* The message box that ends export_video is closed.
ExportMessageDone ==
    /\ ExportStage({"message"})
    /\ Continues(ExportReturns(Cur), "ExportMessageDone")

TogglePlayback ==
    /\ Accepting /\ ~Blocked
    /\ Becomes(toggle_playback(Cur), "TogglePlayback")

\* playback_timer fires; timers fire in every event loop, also the nested ones.
Tick ==
    /\ ~aborted
    /\ main_window.is_playing
    /\ Continues(next_frame(Cur), "Tick")

\* The user moves the slider, whose range is 0 .. max(0, total_frames - 1).
SeekFrame ==
    /\ Accepting /\ ~Blocked
    /\ \E frame_idx \in 0 .. Max(0, main_window.total_frames - 1) :
          Becomes(seek_frame(Cur, frame_idx), "SeekFrame")

InitExport ==
    /\ preview_widget = TilingSession.pw
    /\ main_window = PlaybackFields @@ TilingSession.mw
    /\ aborted = FALSE
    /\ events = 0
    /\ last_event = [name |-> "Init", had_rect |-> FALSE]

NextExport ==
    \/ ExportVideo
    \/ ExportDialogDone
    \/ ExportPathDone
    \/ ExportResume
    \/ ExportCancel
    \/ ExportMessageDone
    \/ TogglePlayback
    \/ Tick
    \/ ~Blocked /\ Press
    \/ ~Blocked /\ Move
    \/ ~Blocked /\ Release
    \/ ~Blocked /\ ClearCrop
    \/ ~Blocked /\ RotateLeft
    \/ ~Blocked /\ RotateRight

SpecExport == InitExport /\ [][NextExport]_vars

-----------------------------------------------------------------------------
(* Playback: the timer, the slider and the play button *)

\* CAP_PROP_FRAME_COUNT is read from the header of the file: the frames that
\* read() returns are all of them, or one less when the file ends early.
ReadableCounts == {TotalFrames - 1, TotalFrames}

\* The window after import_video, without a rectangle or holding P.
Imported == import_video(State(InitPreviewWidget, InitMainWindow, FALSE), QSize(320, 180))

InitPlayback ==
    /\ \E readable \in ReadableCounts, held \in BOOLEAN, P \in Primaries :
          /\ preview_widget = IF held THEN Holding(Imported, P).pw ELSE Imported.pw
          /\ main_window =
                [PlaybackFields EXCEPT !.readable_frames = readable]
                  @@ (IF held THEN Holding(Imported, P).mw ELSE Imported.mw)
    /\ aborted = FALSE
    /\ events = 0
    /\ last_event = [name |-> "Init", had_rect |-> FALSE]

NextPlayback ==
    \/ TogglePlayback
    \/ Tick
    \/ SeekFrame
    \/ ClearCrop
    \/ RotateRight

\* playback_timer fires every interval for as long as it is started and the
\* event loop runs.
SpecPlayback == InitPlayback /\ [][NextPlayback]_vars /\ WF_vars(Tick)

-----------------------------------------------------------------------------
(* adjust_crop_rect as a function of the constraint, the handle and the pointer *)

\* The constraints a gesture runs under: none, the ratio 16:9 selected in the
\* combo box (which locks it), the widget's size lock, and both.
Constraints == {"free", "ratio", "size", "both"}

WithSizeLock(s) ==
    [s EXCEPT !.pw.lock_size = TRUE, !.pw.locked_size = Some(LockedSize)]

Constrained(s, c) ==
    IF c = "free" THEN s
    ELSE IF c = "ratio" THEN setCurrentText(s, "16:9")
    ELSE IF c = "size" THEN WithSizeLock(s)
    ELSE WithSizeLock(setCurrentText(s, "16:9"))

\* A rectangle is drawn from (100, 100) to (300, 200) and the button released:
\* its widget rectangle spans (100, 100) .. (299, 199).
Drawn(s) ==
    mouseReleaseEvent(mouseMoveEvent(mousePressEvent(s, QPoint(100, 100)), QPoint(300, 200)))

\* A point on each handle of that widget rectangle, and the points the
\* pointer is dragged to.
GrabPoints ==
    {QPoint(100, 100), QPoint(299, 100), QPoint(100, 199), QPoint(299, 199),
     QPoint(200, 100), QPoint(200, 199), QPoint(100, 150), QPoint(299, 150),
     QPoint(200, 150)}
AdjustPoints ==
    {QPoint(200, 130), QPoint(210, 160), QPoint(150, 150), QPoint(250, 120),
     QPoint(330, 230), QPoint(90, 80), QPoint(700, 400), QPoint(0, 0)}

\* The session: a video imported, the widget sized, the constraint set, the
\* rectangle drawn and a handle grabbed.
Grabbed(c, sz, g) ==
    mousePressEvent(
        Drawn(Constrained(resizeEvent(import_video(State(InitPreviewWidget, InitMainWindow, FALSE),
                                                   QSize(320, 180)), sz), c)), g)

InitAdjust ==
    /\ \E c \in Constraints, sz \in WidgetSizes, g \in GrabPoints :
          /\ preview_widget = Grabbed(c, sz, g).pw
          /\ main_window = Grabbed(c, sz, g).mw
          /\ aborted = Grabbed(c, sz, g).aborted
    /\ events = 0
    /\ last_event = [name |-> "Init", had_rect |-> TRUE]

\* The pointer is dragged to p while a handle is held.
AdjustTo(p) ==
    /\ Accepting
    /\ preview_widget.adjusting
    /\ Becomes(mouseMoveEvent(Cur, p), "Move")

AdjustMove == \E p \in AdjustPoints : AdjustTo(p)

\* A move event arrives at the point of the press.
AdjustInPlace ==
    /\ preview_widget.start_point_widget # None
    /\ AdjustTo(Val(preview_widget.start_point_widget))

NextAdjust == AdjustMove \/ AdjustInPlace

SpecAdjust == InitAdjust /\ [][NextAdjust]_vars

-----------------------------------------------------------------------------
(* Properties *)

\* The rectangle is present, over some content.
Present == preview_widget.crop_rect # None /\ preview_widget.current_frame # None

\* C1: whenever a rectangle is present it satisfies 0 <= x, 0 <= y,
\* x + width <= content.width and y + height <= content.height.
C1_BoundsInvariant ==
    Present => Within(Val(preview_widget.crop_rect), Val(preview_widget.current_frame))

\* A handle is being dragged and the last event was a move of the pointer.
DragResized ==
    /\ ~aborted
    /\ Present
    /\ last_event.name = "Move"
    /\ preview_widget.adjusting
    /\ preview_widget.adjust_mode # None
    /\ Val(preview_widget.adjust_mode) \in Handles \ {"move"}

MouseEvents == {"Press", "Move", "Release"}

\* C3: while the size lock (W, H) is active, every rectangle a mouse event
\* leaves has width W and height H exactly.
C3_FixedSizeLock ==
    (/\ Present
     /\ last_event.name \in MouseEvents
     /\ preview_widget.lock_size
     /\ preview_widget.locked_size # None)
    => /\ width(Val(preview_widget.crop_rect)) = Val(preview_widget.locked_size)[1]
       /\ height(Val(preview_widget.crop_rect)) = Val(preview_widget.locked_size)[2]

\* abs(w / h - n / d) < 1 / max(w, h) for h > 0, in integers.
WithinTolerance(w, h, n, d) ==
    h > 0 /\ Abs(w * d - n * h) * Max(w, h) < d * h

\* C4: while the ratio 16:9 is active, the rectangle a drag-resize leaves
\* satisfies abs(width / height - 16 / 9) < 1 / max(width, height).
C4_AspectLock ==
    (/\ DragResized
     /\ preview_widget.lock_aspect_ratio
     /\ preview_widget.aspect_ratio = Some(<<16, 9>>))
    => WithinTolerance(width(Val(preview_widget.crop_rect)),
                       height(Val(preview_widget.crop_rect)), 16, 9)

\* C5: the flags drawing and adjusting are never both true.
C5_TaggedUnion ==
    ~(preview_widget.drawing /\ preview_widget.adjusting)

Idle == ~preview_widget.drawing /\ ~preview_widget.adjusting

\* C6: a release received while neither drawing nor adjusting leaves the
\* content rectangle and its display projection as they were.
C6_IdleRelease ==
    [][(Release /\ Idle)
         => /\ preview_widget.crop_rect' = preview_widget.crop_rect
            /\ preview_widget.crop_rect_widget' = preview_widget.crop_rect_widget]_vars

\* The constraint the editor applies to a gesture.
EffectiveConstraint(pw) ==
    IF pw.lock_size /\ pw.locked_size # None THEN <<"size", Val(pw.locked_size)>>
    ELSE IF pw.lock_aspect_ratio /\ pw.aspect_ratio # None THEN <<"ratio", Val(pw.aspect_ratio)>>
    ELSE <<"free">>

\* C7: an event of the constraint controls that changes the effective
\* constraint leaves the rectangle absent and the replicas empty.
C7_ConstraintChangeDiscards ==
    [][((SelectRatio \/ ToggleLock \/ EditCustomRatio)
          /\ EffectiveConstraint(preview_widget') # EffectiveConstraint(preview_widget))
         => /\ preview_widget.crop_rect' = None
            /\ main_window.crop_rect' = None
            /\ preview_widget.shadow_crop_rects' = <<>>]_vars

\* C8: after clear_crop, in whatever mode it was called, the mode is idle
\* and the rectangle is absent.
C8_ClearForcesIdle ==
    last_event.name = "ClearCrop" => Idle /\ preview_widget.crop_rect = None

ContentEvents == {"ImportVideo", "RotateLeft", "RotateRight", "Rotate180", "ResetRotation"}

\* C9: when an import or a rotation returns, the rectangle of the editor
\* and that of the main window are absent and there are no replicas.
C9_ContentChangeDiscards ==
    last_event.name \in ContentEvents
    => /\ preview_widget.crop_rect = None
       /\ preview_widget.crop_rect_widget = None
       /\ main_window.crop_rect = None
       /\ preview_widget.shadow_crop_rects = <<>>
       /\ preview_widget.shadow_crop_rects_widget = <<>>

\* A rotation to 180 x 320 has returned, called while a rectangle was present.
C9_Witness ==
    /\ last_event.name \in ContentEvents
    /\ last_event.had_rect
    /\ preview_widget.current_frame = Some(QSize(180, 320))
    /\ preview_widget.crop_rect = None

\* C10: a resize of the widget leaves the content rectangle, the replicas
\* in content space, the interaction mode and the constraint unchanged.
C10_ResizeKeepsContent ==
    [][Resize
         => /\ preview_widget.crop_rect' = preview_widget.crop_rect
            /\ main_window.crop_rect' = main_window.crop_rect
            /\ preview_widget.shadow_crop_rects' = preview_widget.shadow_crop_rects
            /\ preview_widget.drawing' = preview_widget.drawing
            /\ preview_widget.adjusting' = preview_widget.adjusting
            /\ preview_widget.adjust_mode' = preview_widget.adjust_mode
            /\ EffectiveConstraint(preview_widget') = EffectiveConstraint(preview_widget)
            /\ preview_widget.current_frame' = preview_widget.current_frame]_vars

\* The widget has been resized to 640 x 480 while a handle of a present
\* rectangle with replicas was being dragged.
C10_Witness ==
    /\ last_event.name = "Resize"
    /\ preview_widget.size = QSize(640, 480)
    /\ Present
    /\ preview_widget.shadow_crop_rects # <<>>
    /\ preview_widget.adjusting

\* The rectangle (P.x + i * P.width, P.y, P.width, P.height).
Shifted(P, i) == QRect(P.x1 + i * width(P), P.y1, width(P), height(P))

\* The indices i in 1 .. n-1 whose shifted rectangle ends within the width Wc.
Fitting(P, Wc, n) == {i \in 1 .. (n - 1) : P.x1 + i * width(P) + width(P) <= Wc}

\* The replicas are those of the rule for P, Wc and n: they are the shifted
\* rectangles of the fitting indices, each once, in increasing i.
FollowsRule(replicas, P, Wc, n) ==
    /\ Len(replicas) = Cardinality(Fitting(P, Wc, n))
    /\ \A i \in Fitting(P, Wc, n) : \E k \in DOMAIN replicas : replicas[k] = Shifted(P, i)
    /\ \A k \in DOMAIN replicas : \E i \in Fitting(P, Wc, n) : replicas[k] = Shifted(P, i)
    /\ \A k \in DOMAIN replicas : k > 1 => replicas[k - 1].x1 < replicas[k].x1

\* C11: the replicas of a present rectangle P for the count n are exactly the
\* rectangles (P.x + i * P.width, P.y, P.width, P.height), i in 1 .. n-1, with
\* P.x + i * P.width + P.width <= content.width, in increasing i; there are at
\* most n - 1 of them, each lies within the content, and n <= 1 gives none.
C11_ReplicaRule ==
    Present =>
      /\ FollowsRule(preview_widget.shadow_crop_rects, Val(preview_widget.crop_rect),
                     Val(preview_widget.current_frame).w, preview_widget.shadow_count)
      /\ Len(preview_widget.shadow_crop_rects) <= Max(preview_widget.shadow_count - 1, 0)
      /\ \A k \in DOMAIN preview_widget.shadow_crop_rects :
            Within(preview_widget.shadow_crop_rects[k], Val(preview_widget.current_frame))
      /\ (preview_widget.shadow_count <= 1 => preview_widget.shadow_crop_rects = <<>>)

\* update_shadow_crops has been called with 4 for the rectangle (0, 0, 100, 50)
\* over a frame of 250 x 200.
TilingExample ==
    /\ last_event.name = "Generate"
    /\ last_event.num_segments = 4
    /\ preview_widget.crop_rect = Some(QRect(0, 0, 100, 50))
    /\ preview_widget.current_frame = Some(QSize(250, 200))

\* C12: with the rectangle (0, 0, 100, 50), content 250 x 200 and n = 4 there
\* are exactly 2 replicas, at x = 100 and x = 200.
C12_TwoReplicas ==
    TilingExample
    => preview_widget.shadow_crop_rects = <<QRect(100, 0, 100, 50), QRect(200, 0, 100, 50)>>

\* C12, amended: with the rectangle (0, 0, 100, 50), content 250 x 200 and
\* n = 4 there is exactly 1 replica, at x = 100; the candidate at x = 200 would
\* end at 300 > 250.
C12_OneReplica ==
    TilingExample
    => preview_widget.shadow_crop_rects = <<QRect(100, 0, 100, 50)>>

C12_Witness ==
    TilingExample /\ Len(preview_widget.shadow_crop_rects) = 1

\* C13: after every event the stored replicas are those the rule gives for
\* the current rectangle, the content and the count selected in the window,
\* and there are none when the rectangle is absent or the count is <= 1.
C13_ReplicasDerived ==
    /\ Present =>
          FollowsRule(preview_widget.shadow_crop_rects, Val(preview_widget.crop_rect),
                      Val(preview_widget.current_frame).w, main_window.shadow_count_spin)
    /\ (~Present \/ main_window.shadow_count_spin <= 1)
          => preview_widget.shadow_crop_rects = <<>>

\* A drag of a handle has just changed the rectangle and a replica is stored
\* for the rectangle as it is now.
C13_Witness ==
    /\ DragResized
    /\ preview_widget.crop_rect # preview_widget.original_crop_rect
    /\ preview_widget.shadow_crop_rects # <<>>

\* The corner handles whose vertical and horizontal extreme are both within
\* the tolerance of the point.
CornersNear(rect, point) ==
    {c \in CornerHandles :
        /\ Near(point.x, IF c \in LeftHandles THEN rect.x1 ELSE rect.x2)
        /\ Near(point.y, IF c \in TopHandles THEN rect.y1 ELSE rect.y2)}

\* C14: a point within the tolerance of a vertical and of a horizontal extreme
\* of the widget rectangle resolves to a corner handle of such a pair of
\* extremes, never to an edge handle or to move; a point within the tolerance
\* of the top and the left edge resolves to resize_tl.
C14_HandlePriority ==
    last_event.name = "HitTest" =>
      /\ CornersNear(Val(preview_widget.crop_rect_widget), last_event.point) # {}
           => /\ last_event.handle # None
              /\ Val(last_event.handle)
                   \in CornersNear(Val(preview_widget.crop_rect_widget), last_event.point)
      /\ "resize_tl" \in CornersNear(Val(preview_widget.crop_rect_widget), last_event.point)
           => last_event.handle = Some("resize_tl")

\* A point on the top edge of a 59 x 59 rectangle, inside it and within the
\* tolerance of its left edge too, has resolved to resize_tl.
C14_Witness ==
    /\ last_event.name = "HitTest"
    /\ width(Val(preview_widget.crop_rect_widget)) = 59
    /\ last_event.point = QPoint(105, 100)
    /\ last_event.handle = Some("resize_tl")

\* A frame point strictly inside the frame has been converted to the widget
\* and back.
RoundTripped ==
    /\ last_event.name = "Convert"
    /\ last_event.content # None
    /\ 0 < last_event.point.x /\ last_event.point.x < Val(preview_widget.current_frame).w
    /\ 0 < last_event.point.y /\ last_event.point.y < Val(preview_widget.current_frame).h

\* C15: for every transform and every frame point strictly inside the frame,
\* the point converted to the widget and back differs from it by at most 1 on
\* each axis.
C15_RoundTripWithinOne ==
    RoundTripped =>
      /\ Abs(Val(last_event.content).x - last_event.point.x) <= 1
      /\ Abs(Val(last_event.content).y - last_event.point.y) <= 1

\* abs(a - b) < 1 + 1 / scale for the scale <<numerator, denominator>>.
WithinScaleStep(a, b, scale) == Abs(a - b) * scale[1] < scale[1] + scale[2]

\* C15, amended: the point converted to the widget and back differs from the
\* point by less than 1 + 1 / scale on each axis, so by at most 1 when the
\* frame is not scaled down.
C15_RoundTripWithinScaleStep ==
    RoundTripped =>
      /\ WithinScaleStep(Val(last_event.content).x, last_event.point.x,
                         preview_widget.frame_to_widget_scale_x)
      /\ WithinScaleStep(Val(last_event.content).y, last_event.point.y,
                         preview_widget.frame_to_widget_scale_y)
      /\ (preview_widget.frame_to_widget_scale_x[1] >= preview_widget.frame_to_widget_scale_x[2]
            => Abs(Val(last_event.content).x - last_event.point.x) <= 1)
      /\ (preview_widget.frame_to_widget_scale_y[1] >= preview_widget.frame_to_widget_scale_y[2]
            => Abs(Val(last_event.content).y - last_event.point.y) <= 1)

\* At the scale 1/4 the point (7, 3) has come back as (4, 0); at the scale
\* 9/8 with a horizontal offset a point has come back one less on an axis.
C15_Witness ==
    /\ RoundTripped
    /\ \/ /\ preview_widget.current_frame = Some(QSize(2560, 1440))
          /\ last_event.point = QPoint(7, 3)
          /\ last_event.content = Some(QPoint(4, 0))
       \/ /\ preview_widget.current_frame = Some(QSize(180, 320))
          /\ Val(last_event.content).x = last_event.point.x - 1

\* The frame point of a drag to the widget point p while drawing.
DragTarget(pw, p) == widget_to_frame_coords(pw, ConstrainDraw(pw, ClampMouse(pw, p)))

\* The pointer is dragged to p while a rectangle is being drawn.
DragTo(p) ==
    /\ Accepting
    /\ preview_widget.drawing
    /\ ~preview_widget.adjusting
    /\ preview_widget.current_frame # None
    /\ Becomes(mouseMoveEvent(Cur, p), "Move")

\* C16: the conversion of a widget point to the frame always gives a point
\* with 0 <= x <= content.width and 0 <= y <= content.height, also for points
\* outside the widget or in the padding, and a drag to such a point is
\* processed: the frame point becomes the live endpoint.
C16_ClampedNeverRejected ==
    [][\A p \in MovePoints :
          DragTo(p) =>
            /\ DragTarget(preview_widget, p) # None
            /\ 0 <= Val(DragTarget(preview_widget, p)).x
            /\ Val(DragTarget(preview_widget, p)).x <= Val(preview_widget.current_frame).w
            /\ 0 <= Val(DragTarget(preview_widget, p)).y
            /\ Val(DragTarget(preview_widget, p)).y <= Val(preview_widget.current_frame).h
            /\ preview_widget.end_point' = DragTarget(preview_widget, p)]_vars

\* The button is pressed at p while the editor is idle and a frame is shown.
PressInIdle(p) ==
    /\ Accepting
    /\ Idle
    /\ preview_widget.current_frame # None
    /\ InWidget(p)
    /\ Becomes(mousePressEvent(Cur, p), "Press")

\* C17: a press in idle on a handle of the rectangle enters adjusting with
\* that handle and keeps the rectangle and its widget rectangle as the
\* snapshot, leaving both unchanged; any other press enters drawing with the
\* frame point of the press as the anchor and as the live endpoint.
C17_PressInIdle ==
    [][\A p \in PressPoints :
          PressInIdle(p) =>
            IF get_crop_handle_at(preview_widget, p) # None
            THEN /\ preview_widget.adjusting' /\ ~preview_widget.drawing'
                 /\ preview_widget.adjust_mode' = get_crop_handle_at(preview_widget, p)
                 /\ preview_widget.original_crop_rect' = preview_widget.crop_rect
                 /\ preview_widget.original_crop_rect_widget' = preview_widget.crop_rect_widget
                 /\ preview_widget.crop_rect' = preview_widget.crop_rect
                 /\ preview_widget.crop_rect_widget' = preview_widget.crop_rect_widget
            ELSE /\ preview_widget.drawing' /\ ~preview_widget.adjusting'
                 /\ widget_to_frame_coords(preview_widget, p) # None
                 /\ preview_widget.start_point' = widget_to_frame_coords(preview_widget, p)
                 /\ preview_widget.end_point' = widget_to_frame_coords(preview_widget, p)]_vars

\* The button is released while a gesture is in progress.
ReleaseInGesture ==
    /\ Accepting
    /\ preview_widget.drawing \/ preview_widget.adjusting
    /\ Becomes(mouseReleaseEvent(Cur), "Release")

\* C18: a release while drawing or adjusting leaves the editor idle, with no
\* handle and no snapshot, and leaves the rectangle as the last press or move
\* of the gesture made it.
C18_ReleaseFinalizes ==
    [][ReleaseInGesture =>
          /\ ~preview_widget.drawing' /\ ~preview_widget.adjusting'
          /\ preview_widget.adjust_mode' = None
          /\ preview_widget.original_crop_rect' = None
          /\ preview_widget.original_crop_rect_widget' = None
          /\ preview_widget.crop_rect' = preview_widget.crop_rect]_vars

\* The widget rectangle is the projection of the rectangle.
Projected ==
    preview_widget.crop_rect_widget =
        Some(ProjectRect(preview_widget, Val(preview_widget.crop_rect)))

\* C19: after every press, move, release and resize that leaves a rectangle
\* present, the widget rectangle is the rectangle spanned by the widget
\* points of the top-left and bottom-right corners of the rectangle.
C19_WidgetRectProjected ==
    (Present /\ last_event.name \in {"Press", "Move", "Release", "Resize"}) => Projected

\* The button is pressed at p while a frame is shown and there is no rectangle.
PressWithoutRect(p) ==
    /\ Accepting
    /\ preview_widget.current_frame # None
    /\ preview_widget.crop_rect = None
    /\ InWidget(p)
    /\ Becomes(mousePressEvent(Cur, p), "Press")

\* C20: whenever a frame is shown and there is no rectangle, a press at any
\* point of the widget leaves a rectangle present.
C20_PressRecovers ==
    [][\A p \in PressPoints : PressWithoutRect(p) => Present']_vars

\* C21: a recomputation of the transform for an empty widget size leaves the
\* scales, the offsets and the rectangle as they were, and no scale is zero
\* afterwards.
C21_InvalidDimensionsFailClosed ==
    [][\A sz \in EmptySizes :
          RecomputeTo(sz) =>
            /\ Transform(preview_widget') = Transform(preview_widget)
            /\ preview_widget.crop_rect' = preview_widget.crop_rect
            /\ preview_widget.frame_to_widget_scale_x'[1] # 0
            /\ preview_widget.frame_to_widget_scale_y'[1] # 0]_vars

MouseOrContentEvents ==
    {"Press", "Move", "Release", "ClearCrop", "RotateLeft", "RotateRight", "TogglePlayback"}

MovedWhileAdjusting(mode) ==
    /\ last_event.name = "Move"
    /\ preview_widget.adjusting
    /\ preview_widget.adjust_mode = Some(mode)
    /\ preview_widget.original_crop_rect # None
    /\ Present

\* C23: after every move event while adjusting with the move handle the
\* rectangle has the width and the height of the snapshot taken at the press.
C23_MoveKeepsSize ==
    MovedWhileAdjusting("move") =>
        /\ width(Val(preview_widget.crop_rect)) = width(Val(preview_widget.original_crop_rect))
        /\ height(Val(preview_widget.crop_rect)) = height(Val(preview_widget.original_crop_rect))

\* A move event has been handled while adjusting with a resize handle.
ResizedWhileAdjusting ==
    \E mode \in Handles \ {"move"} : MovedWhileAdjusting(mode)

\* The edge of the rectangle equals that of the snapshot unless the handle
\* in use drives it.
EdgeKept(driving, edge) ==
    \/ Val(preview_widget.adjust_mode) \in driving
    \/ Val(preview_widget.crop_rect)[edge] = Val(preview_widget.original_crop_rect)[edge]

\* C24: after every move event while adjusting with a resize handle, the
\* edges of the rectangle that the handle does not drive are those of the
\* snapshot.
C24_ResizeKeepsOtherEdges ==
    ResizedWhileAdjusting =>
        /\ EdgeKept(LeftHandles, "x1")
        /\ EdgeKept(TopHandles, "y1")
        /\ EdgeKept(RightHandles, "x2")
        /\ EdgeKept(BottomHandles, "y2")

\* The extent, in widget pixels, that a drag of the held edge handle to p
\* gives the snapshot on the axis of the handle.
DraggedExtent(pw, p) ==
    CASE Val(pw.adjust_mode) = "resize_t" ->
            height(Val(pw.original_crop_rect_widget)) - MouseDeltas(pw, ClampMouse(pw, p))[2]
      [] Val(pw.adjust_mode) = "resize_b" ->
            height(Val(pw.original_crop_rect_widget)) + MouseDeltas(pw, ClampMouse(pw, p))[2]
      [] Val(pw.adjust_mode) = "resize_l" ->
            width(Val(pw.original_crop_rect_widget)) - MouseDeltas(pw, ClampMouse(pw, p))[1]
      [] OTHER ->
            width(Val(pw.original_crop_rect_widget)) + MouseDeltas(pw, ClampMouse(pw, p))[1]

\* An edge handle is dragged to p with the ratio 16:9 in effect, to an extent
\* of at least the minimum size of the widget rectangle.
EdgeDragTo(modes, p) ==
    /\ AdjustTo(p)
    /\ preview_widget.adjust_mode \in {Some(m) : m \in modes}
    /\ EffectiveConstraint(preview_widget) = <<"ratio", <<16, 9>>>>
    /\ DraggedExtent(preview_widget, p) >= MinimumWidgetSize

\* extent content pixels are, give or take two, the dragged widget pixels.
FollowsDrag(extent, dragged, scale) ==
    Abs(extent * scale[1] - dragged * scale[2]) <= 2 * scale[1]

\* C25: with the ratio 16:9 in effect, a drag of the top or bottom handle
\* gives the rectangle the dragged height and the width derived from it; a
\* drag of the left or right handle gives it the dragged width and the height
\* derived from it.
C25_DraggedDimensionDrives ==
    [][\A p \in AdjustPoints :
          /\ EdgeDragTo({"resize_t", "resize_b"}, p) =>
                /\ FollowsDrag(height(Val(preview_widget.crop_rect')),
                               DraggedExtent(preview_widget, p),
                               preview_widget.frame_to_widget_scale_y)
                /\ Abs(width(Val(preview_widget.crop_rect'))
                       - Trunc(height(Val(preview_widget.crop_rect')) * 16, 9)) <= 1
          /\ EdgeDragTo({"resize_l", "resize_r"}, p) =>
                /\ FollowsDrag(width(Val(preview_widget.crop_rect')),
                               DraggedExtent(preview_widget, p),
                               preview_widget.frame_to_widget_scale_x)
                /\ Abs(height(Val(preview_widget.crop_rect'))
                       - Trunc(width(Val(preview_widget.crop_rect')) * 9, 16)) <= 1]_vars

\* The pointer is dragged to p while a rectangle is drawn with a ratio in effect.
RatioDragTo(p) ==
    /\ DragTo(p)
    /\ EffectiveConstraint(preview_widget)[1] = "ratio"
    /\ preview_widget.start_point # None
    /\ preview_widget.start_point_widget # None
    /\ DragTarget(preview_widget, p) # None
    /\ PointTruthy(DragTarget(preview_widget, p))

\* The deltas, in widget pixels, between the anchor and the clamped pointer.
DrawDeltas(pw, p) ==
    <<ClampMouse(pw, p).x - Val(pw.start_point_widget).x,
      ClampMouse(pw, p).y - Val(pw.start_point_widget).y>>

\* The extent, in frame pixels, between the anchor and the clamped pointer on
\* an axis; a zero extent counts as 1.
DrawnExtent(pw, p, axis) ==
    Max(1, Abs(Val(widget_to_frame_coords(pw, ClampMouse(pw, p)))[axis] - Val(pw.start_point)[axis]))

\* The rectangle r has the extent on the driving axis and, give or take one,
\* the extent the ratio <<n, d>> derives from it on the other axis.
WidthDrives(r, extent, ratio) ==
    width(r) = extent /\ Abs(height(r) - Trunc(width(r) * ratio[2], ratio[1])) <= 1
HeightDrives(r, extent, ratio) ==
    height(r) = extent /\ Abs(width(r) - Trunc(height(r) * ratio[1], ratio[2])) <= 1

\* C26: while a rectangle is drawn with a ratio in effect, the axis with the
\* larger absolute delta between the anchor and the pointer gives the
\* rectangle its extent on that axis, and the ratio gives the other extent.
C26_LargerDeltaDrives ==
    [][\A p \in MovePoints :
          RatioDragTo(p) =>
            /\ Abs(DrawDeltas(preview_widget, p)[1]) > Abs(DrawDeltas(preview_widget, p)[2]) =>
                  WidthDrives(Val(preview_widget.crop_rect'),
                              DrawnExtent(preview_widget, p, "x"),
                              Val(preview_widget.aspect_ratio))
            /\ Abs(DrawDeltas(preview_widget, p)[1]) < Abs(DrawDeltas(preview_widget, p)[2]) =>
                  HeightDrives(Val(preview_widget.crop_rect'),
                               DrawnExtent(preview_widget, p, "y"),
                               Val(preview_widget.aspect_ratio))]_vars

\* The same state with the aspect-ratio lock released and the size lock kept.
SizeOnly(s) == [s EXCEPT !.pw.lock_aspect_ratio = FALSE]

\* Both the size lock and the aspect-ratio lock are in force.
BothLocked ==
    /\ preview_widget.lock_size /\ preview_widget.locked_size # None
    /\ preview_widget.lock_aspect_ratio /\ preview_widget.aspect_ratio # None

\* The pointer is moved to p during a gesture with both locks in force.
BothLockedMoveTo(p) ==
    /\ BothLocked
    /\ preview_widget.drawing \/ preview_widget.adjusting
    /\ Accepting
    /\ Becomes(mouseMoveEvent(Cur, p), "Move")

\* C27: with the size lock and the aspect-ratio lock both in force, a move of
\* the pointer leaves the rectangle that the same move leaves when only the
\* size lock is in force.
C27_SizeLockTakesPrecedence ==
    [][\A p \in MovePoints :
          BothLockedMoveTo(p) =>
             preview_widget.crop_rect' = mouseMoveEvent(SizeOnly(Cur), p).pw.crop_rect]_vars

\* The top-left handle is dragged to p with the size lock in force.
SizeLockedResizeTL(p) ==
    /\ AdjustTo(p)
    /\ preview_widget.adjust_mode = Some("resize_tl")
    /\ EffectiveConstraint(preview_widget)[1] = "size"
    /\ preview_widget.original_crop_rect # None

\* The rectangles r and orig have the same bottom-right corner.
SameBottomRight(r, orig) == r.x2 = orig.x2 /\ r.y2 = orig.y2

\* C28: with the size lock in force, a drag of the top-left handle leaves the
\* bottom-right corner of the rectangle where the snapshot taken at the press
\* has it.
C28_SizeLockAnchorsOppositeCorner ==
    [][\A p \in AdjustPoints :
          SizeLockedResizeTL(p) =>
             /\ preview_widget.crop_rect' # None
             /\ SameBottomRight(Val(preview_widget.crop_rect'),
                                Val(preview_widget.original_crop_rect))]_vars

\* The pointer is dragged to p while a rectangle is drawn from an anchor with
\* no constraint in force; the clamped pointer has a frame point.
FreeDragTo(p) ==
    /\ DragTo(p)
    /\ EffectiveConstraint(preview_widget) = <<"free">>
    /\ preview_widget.start_point # None
    /\ DragTarget(preview_widget, p) # None

\* The axis-aligned bounding box of the frame points a and b, a zero extent
\* replaced by 1.
BoundingBox(a, b) ==
    [x1 |-> Min(a.x, b.x), y1 |-> Min(a.y, b.y),
     x2 |-> Min(a.x, b.x) + Max(1, Abs(a.x - b.x)) - 1,
     y2 |-> Min(a.y, b.y) + Max(1, Abs(a.y - b.y)) - 1]

\* C29: a move of the pointer while a rectangle is drawn with no constraint
\* leaves the bounding box of the anchor and the frame point of the clamped
\* pointer, a zero extent replaced by 1.
C29_FreeDrawIsBoundingBox ==
    [][\A p \in MovePoints :
          FreeDragTo(p) =>
             preview_widget.crop_rect'
               = Some(BoundingBox(Val(preview_widget.start_point),
                                  Val(DragTarget(preview_widget, p))))]_vars

\* The shadow rectangles of a loop over i = from .. num_segments - 1 that stops
\* at the first candidate whose right edge exceeds the frame width.
RECURSIVE StopAtFirst(_, _, _, _)
StopAtFirst(crop, frame_width, num_segments, from) ==
    IF from > num_segments - 1 \/ crop.x1 + width(crop) * from + width(crop) > frame_width
    THEN <<>>
    ELSE <<QRect(crop.x1 + width(crop) * from, crop.y1, width(crop), height(crop))>>
         \o StopAtFirst(crop, frame_width, num_segments, from + 1)

\* C30: the replicas update_shadow_crops stores are those of the candidates
\* 1 .. k for some k: the k-th stored replica is the k-th candidate, and the
\* list is the one a loop stopping at the first candidate that does not fit
\* would store.
C30_ReplicasFormPrefix ==
    (last_event.name = "Generate" /\ Present) =>
      /\ \A k \in DOMAIN preview_widget.shadow_crop_rects :
            preview_widget.shadow_crop_rects[k].x1
              = Val(preview_widget.crop_rect).x1 + width(Val(preview_widget.crop_rect)) * k
      /\ preview_widget.shadow_crop_rects
           = StopAtFirst(Val(preview_widget.crop_rect), Val(preview_widget.current_frame).w,
                         last_event.num_segments, 1)

\* update_shadow_crops has stored a replica and left out at least two
\* candidates, the first of which does not fit.
C30_Witness ==
    /\ last_event.name = "Generate"
    /\ Present
    /\ Len(preview_widget.shadow_crop_rects) >= 1
    /\ Len(preview_widget.shadow_crop_rects) + 2 < last_event.num_segments

\* The edge handles.
EdgeHandles == {"resize_t", "resize_b", "resize_l", "resize_r"}

\* The point is farther than the tolerance from each of the four edges of rect.
AwayFromEdges(rect, point) ==
    /\ ~Near(point.x, rect.x1) /\ ~Near(point.x, rect.x2)
    /\ ~Near(point.y, rect.y1) /\ ~Near(point.y, rect.y2)

\* The point is farther than the tolerance from rect on the x or on the y axis.
BeyondTolerance(rect, point) ==
    \/ point.x < rect.x1 - handle_size \/ point.x > rect.x2 + handle_size
    \/ point.y < rect.y1 - handle_size \/ point.y > rect.y2 + handle_size

\* C31: a point contained in the widget rectangle resolves to a handle, to
\* move when it is farther than the tolerance from every edge; an edge handle
\* is the result only when no corner is within the tolerance on both axes; a
\* point farther than the tolerance from the rectangle on an axis resolves to
\* no handle.
C31_HitTestTotalAndOrdered ==
    last_event.name = "HitTest" =>
      /\ contains(Val(preview_widget.crop_rect_widget), last_event.point)
           => last_event.handle # None
      /\ (contains(Val(preview_widget.crop_rect_widget), last_event.point)
          /\ AwayFromEdges(Val(preview_widget.crop_rect_widget), last_event.point))
           => last_event.handle = Some("move")
      /\ last_event.handle \in {Some(e) : e \in EdgeHandles}
           => CornersNear(Val(preview_widget.crop_rect_widget), last_event.point) = {}
      /\ BeyondTolerance(Val(preview_widget.crop_rect_widget), last_event.point)
           => last_event.handle = None

\* A point inside a 59 x 59 rectangle, within the tolerance of its top edge
\* only, has resolved to resize_t.
C31_Witness ==
    /\ last_event.name = "HitTest"
    /\ width(Val(preview_widget.crop_rect_widget)) = 59
    /\ last_event.point = QPoint(125, 105)
    /\ last_event.handle = Some("resize_t")

\* The rectangle of the preview widget followed by its shadow rectangles.
PrimaryThenReplicas ==
    IF Present THEN <<Val(preview_widget.crop_rect)>> \o preview_widget.shadow_crop_rects
    ELSE <<>>

\* C32: a call of export_video that goes past the settings dialog with a
\* rectangle present works on the rectangle followed by the shadow rectangles
\* of that moment, in order; it finishes the segments in that order, one per
\* rectangle, and when it is not cancelled it ends with as many segments as
\* rectangles.  With no rectangle present it goes from the settings dialog to
\* the warning with no rectangle collected and no segment written.
C32_ExportUsesPrimaryThenReplicas ==
    (Exporting /\ Val(main_window.export).stage # "settings") =>
      /\ Val(main_window.export).rects = PrimaryThenReplicas
      /\ Len(Val(main_window.export).files) <= Len(Val(main_window.export).rects)
      /\ \A i \in DOMAIN Val(main_window.export).files :
            Val(main_window.export).files[i][1] = Val(main_window.export).rects[i]
      /\ (Val(main_window.export).stage = "message" /\ ~Val(main_window.export).canceled)
           => Len(Val(main_window.export).files) = Len(Val(main_window.export).rects)
      /\ ~Present => /\ Val(main_window.export).stage = "message"
                     /\ Val(main_window.export).files = <<>>

\* An export of a rectangle with one shadow rectangle has ended, not
\* cancelled, with two segments.
C32_Witness ==
    /\ Exporting
    /\ Val(main_window.export).stage = "message"
    /\ ~Val(main_window.export).canceled
    /\ Len(preview_widget.shadow_crop_rects) = 1
    /\ Len(Val(main_window.export).files) = 2

\* C33: for a widget rectangle at most twice the handle tolerance wide and
\* high, no point resolves to move, and every point inside it resolves to a
\* corner handle.
C33_SmallRectangleHasNoMove ==
    (/\ last_event.name = "HitTest"
     /\ width(Val(preview_widget.crop_rect_widget)) <= 2 * handle_size
     /\ height(Val(preview_widget.crop_rect_widget)) <= 2 * handle_size) =>
      /\ last_event.handle # Some("move")
      /\ contains(Val(preview_widget.crop_rect_widget), last_event.point)
           => last_event.handle \in {Some(c) : c \in CornerHandles}

\* A point in the middle of a 15 x 15 rectangle has resolved to a corner handle.
C33_Witness ==
    /\ last_event.name = "HitTest"
    /\ width(Val(preview_widget.crop_rect_widget)) = 15
    /\ height(Val(preview_widget.crop_rect_widget)) = 15
    /\ last_event.point = QPoint(105, 110)
    /\ last_event.handle \in {Some(c) : c \in CornerHandles}

\* C34: a move event at the point of the press, the first event after a
\* press on a handle, leaves the content rectangle equal to the snapshot
\* taken at the press.
C34_ZeroDeltaKeepsRect ==
    [][(AdjustInPlace /\ last_event.name = "Init")
         => preview_widget.crop_rect' = preview_widget.original_crop_rect]_vars

\* A move event arrives at p while no gesture is in progress.
IdleMoveTo(p) ==
    /\ Idle
    /\ Accepting
    /\ Becomes(mouseMoveEvent(Cur, p), "Move")

\* The rectangle, its widget rectangle, the shadow rectangles, the anchor
\* points and the interaction mode of the preview widget.
Selection(pw) ==
    <<pw.crop_rect, pw.crop_rect_widget, pw.shadow_crop_rects, pw.shadow_crop_rects_widget,
      pw.start_point, pw.end_point, pw.start_point_widget, pw.end_point_widget,
      pw.drawing, pw.adjusting, pw.adjust_mode,
      pw.original_crop_rect, pw.original_crop_rect_widget>>

\* C35: a move event received while neither drawing nor adjusting leaves the
\* rectangle, its widget rectangle, the shadow rectangles, the anchor points
\* and the interaction mode as they were.
C35_IdleMoveChangesNothing ==
    [][\A p \in MovePoints :
          IdleMoveTo(p) =>
            /\ Selection(preview_widget') = Selection(preview_widget)
            /\ main_window' = main_window]_vars

\* A move event has been received with a rectangle and a shadow rectangle
\* present and no gesture in progress.
C35_Witness ==
    /\ last_event.name = "Move"
    /\ Idle
    /\ Present
    /\ preview_widget.shadow_crop_rects # <<>>

-----------------------------------------------------------------------------
(* apply_aspect_ratio_constraint as a function of the corners and the ratio *)

\* Ratios of the presets and custom ratios (the spin boxes take 1 .. 1000),
\* and the origins and extents of the rectangles constrained.
ConstrainRatios == {<<16, 9>>, <<4, 3>>, <<1, 1>>, <<9, 16>>, <<1, 49>>, <<3, 11>>, <<2, 49>>}
ConstrainOrigins == {0, 50}
ConstrainExtents == {1, 2, 3, 9, 15, 16, 49, 55, 98}

InitConstrain ==
    /\ \E r \in ConstrainRatios :
          preview_widget = [InitPreviewWidget EXCEPT !.lock_aspect_ratio = TRUE,
                                                     !.aspect_ratio = Some(r)]
    /\ main_window = InitMainWindow
    /\ aborted = FALSE
    /\ events = 0
    /\ \E x1 \in ConstrainOrigins, y1 \in ConstrainOrigins,
          w \in ConstrainExtents, h \in ConstrainExtents :
          last_event = [name |-> "Init", had_rect |-> FALSE,
                        corners |-> <<x1, y1, x1 + w, y1 + h>>,
                        constrained |-> <<x1, y1, x1 + w, y1 + h>>]

\* apply_aspect_ratio_constraint(x1, y1, x2, y2, self.aspect_ratio) is called
\* with the corners; last_event keeps the result.
Constrain ==
    /\ Accepting
    /\ last_event.name = "Init"
    /\ events' = events + 1
    /\ last_event' =
          [last_event EXCEPT
             !.name = "Constrain",
             !.constrained = apply_aspect_ratio_constraint(last_event.corners,
                                                           preview_widget.aspect_ratio)]
    /\ UNCHANGED <<preview_widget, main_window, aborted>>

SpecConstrain == InitConstrain /\ [][Constrain]_vars

\* The result has the origin of the corners c, at least one of their far
\* edges, and at least their width and height.
KeepsOrigin(c, res) == res[1] = c[1] /\ res[2] = c[2]
KeepsAFarEdge(c, res) == res[3] = c[3] \/ res[4] = c[4]
NeverShrinks(c, res) == res[3] - res[1] >= c[3] - c[1] /\ res[4] - res[2] >= c[4] - c[2]

\* C36: for corners of width and height at least 1 and a ratio of positive
\* terms, the constrained corners keep x1 and y1, differ from the input in at
\* most one of x2 and y2, and are at least as wide and as high as the input.
C36_ConstraintNeverShrinks ==
    last_event.name = "Constrain" =>
        /\ KeepsOrigin(last_event.corners, last_event.constrained)
        /\ KeepsAFarEdge(last_event.corners, last_event.constrained)
        /\ NeverShrinks(last_event.corners, last_event.constrained)

Rotations == {0, 90, 180, 270}
RotationEvents == {"RotateLeft", "RotateRight", "Rotate180", "ResetRotation"}

\* The state s has no rectangle, in the editor or in the main window.
NoRectangle(s) == s.pw.crop_rect = None /\ s.mw.crop_rect = None

\* C37: the rotation is always one of 0, 90, 180, 270; rotate_left followed
\* by rotate_right, rotate_right followed by rotate_left and four
\* rotate_right in a row each give back the rotation they started from; and
\* rotate_left, rotate_right, the rotation to 180 and the reset each return
\* with no rectangle.
C37_RotationState ==
    /\ main_window.rotation \in Rotations
    /\ rotate_right(rotate_left(Cur)).mw.rotation = main_window.rotation
    /\ rotate_left(rotate_right(Cur)).mw.rotation = main_window.rotation
    /\ rotate_right(rotate_right(rotate_right(rotate_right(Cur)))).mw.rotation
         = main_window.rotation
    /\ NoRectangle(rotate_left(Cur)) /\ NoRectangle(rotate_right(Cur))
    /\ NoRectangle(rotate_video(Cur, 180)) /\ NoRectangle(rotate_video(Cur, 0))
    /\ last_event.name \in RotationEvents => NoRectangle(Cur)

\* rotate_left has returned at the rotation 270, called at the rotation 0
\* while a rectangle was present.
C37_Witness ==
    /\ last_event.name = "RotateLeft"
    /\ last_event.had_rect
    /\ main_window.rotation = 270
    /\ main_window.video_cap # None

\* C38: a timer tick received while playing before the last frame advances
\* current_frame_idx by exactly one; while playing the index is at most
\* total_frames - 1; a tick at the last frame stops playback; playback, once
\* started, eventually stops (or the process ends); and a seek request
\* received while playing leaves the index as it was.
C38_Playback ==
    /\ [][(Tick /\ main_window.current_frame_idx < main_window.total_frames - 1)
            => main_window.current_frame_idx' = main_window.current_frame_idx + 1]_vars
    /\ [](main_window.is_playing
            => main_window.current_frame_idx <= main_window.total_frames - 1)
    /\ [][(Tick /\ main_window.current_frame_idx >= main_window.total_frames - 1)
            => ~main_window.is_playing']_vars
    /\ [][(SeekFrame /\ main_window.is_playing)
            => main_window.current_frame_idx' = main_window.current_frame_idx]_vars
    /\ (main_window.is_playing ~> (~main_window.is_playing \/ aborted))

====
